---- MODULE Spec2Model ----
(***************************************************************************)
(* TicketKini: the booking lifecycle, the seat-availability check and the  *)
(* payment orchestration, as a state machine over the bookings and         *)
(* payments tables.  One action per request handler; every handler runs    *)
(* to completion (one request at a time).                                  *)
(***************************************************************************)
EXTENDS Integers, Sequences, FiniteSets, TLC

(* ------------------------------ bounds -------------------------------- *)
MaxBookings == 2        \* rows the bookings table may hold
MaxPayments == 2        \* payment ids the sequence may hand out
NumUsers == 2           \* users 1..NumUsers; user 1 is the admin
NumSchedules == 1       \* schedules 1..NumSchedules, all on vehicle 1
TotalSeats == 1         \* Vehicle.total_seats of vehicle 1
NumPnrs == 2            \* distinct codes a PNR generator may return
MaxCharges == 2         \* charges the gateway may take for one booking

(* ------------------------- program constants -------------------------- *)
BOOKING_EXPIRY_MINUTES == 30000
MinutesPerDay == 1440
CancelCutoffMinutes == 120
BasePrice == 500
EconomyClassPrice == 800
BusinessClassPrice == 1200
CancelRefundPercent == 90
MinRefundCents == 5000
MinutesPerHour == 60
SilverPassBookings == 20
GoldPassBookings == 40
SilverPassPercent == 5
GoldPassPercent == 8

(* --------------------------- value domains ---------------------------- *)
NULL == <<>>
Users == 1..NumUsers
ScheduleIds == 1..NumSchedules
SeatNumbers == 1..(TotalSeats + 1)
SeatLists == (SUBSET SeatNumbers) \ {{}}
\* Points of the wall clock the model visits (minutes since midnight of day 0):
\* a booking made at 0 is not yet expired at BOOKING_EXPIRY_MINUTES, when its
\* day-0 journey is already in the past, and is expired one minute later.
Instants == {0, BOOKING_EXPIRY_MINUTES, BOOKING_EXPIRY_MINUTES + 1}
\* Travel dates a request may name (day numbers): today at start, and a day
\* after everything in Instants.
TravelDays == {0, ((BOOKING_EXPIRY_MINUTES + 1) \div MinutesPerDay) + 1}
GatewayErrors == {"Card declined", "Invalid payment details"}
BookingStatus == {"CART", "PENDING", "CONFIRMED", "CANCELLED", "EXPIRED"}
ActiveStatuses == {"CONFIRMED", "PENDING"}

VARIABLES
  bookings,         \* the bookings table: sequence of rows, id = index
  payments,         \* the payments table: set of rows
  next_payment_id,  \* the payments.id sequence
  schedules,        \* the schedules table: id -> row
  now,              \* the wall clock, in minutes
  gateway_charges,  \* the gateway's ledger: booking id -> charges it has taken
  inflight,         \* payment requests between two awaits: request -> its position and locals
  overlapped        \* history: a payment request has started while another was in flight

vars == <<bookings, payments, next_payment_id, schedules, now, gateway_charges,
          inflight, overlapped>>

\* payment requests that may be in flight together
Requests == {"r1", "r2"}

\* a request slot nobody is using
Idle ==
  [pc |-> "idle", user_id |-> 0, booking_id |-> 0, coupon |-> NULL,
   total_price |-> 0, row |-> NULL]

(* ------------------------------ catalog ------------------------------- *)
\* users table: is_admin
IsAdmin(u) == u = 1

\* vehicles table: one vehicle serving every schedule, with the class_prices
\* init_db gives a bus
vehicle ==
  [id |-> 1, total_seats |-> TotalSeats,
   class_prices |-> [economy |-> EconomyClassPrice, business |-> BusinessClassPrice]]

\* seat class names as requests and class_prices spell them
ClassNames == {"ECONOMY", "economy", "Economy", "BUSINESS", "business", "shovon", "SHOVON"}

\* str.upper() on ClassNames
Upper(c) ==
  CASE c \in {"ECONOMY", "economy", "Economy"} -> "ECONOMY"
    [] c \in {"BUSINESS", "business"} -> "BUSINESS"
    [] c \in {"shovon", "SHOVON"} -> "SHOVON"

\* datetime.date() / func.date(): the day a minute falls in
DateOf(t) == t \div MinutesPerDay

BookingIds == 1..Len(bookings)

(* ----------------------- BookingService ------------------------------- *)
\* _get_price_for_class.  class_prices is a mapping from class name to price,
\* empty for None or {}; the result is <<price>>, or NULL for None.  (A mapping
\* with two keys that differ only in case answers with the first in insertion
\* order; no mapping here has two such keys.)
GetPriceForClass(veh, seat_class, sched) ==
  LET normalized == Upper(seat_class)
      prices == veh.class_prices
      fallback == IF normalized = "ECONOMY" /\ sched.base_price # NULL
                    THEN sched.base_price
                    ELSE NULL
  IN IF DOMAIN prices = {}
       THEN fallback
     ELSE IF normalized \in DOMAIN prices
       THEN <<prices[normalized]>>
     ELSE IF \E k \in DOMAIN prices : Upper(k) = normalized
       THEN <<prices[CHOOSE k \in DOMAIN prices : Upper(k) = normalized]>>
     ELSE fallback

\* as BookedSeats, but a PENDING booking does not hold its seats
BookedSeatsConfirmedOnly(bks, schedule_id, travel_day) ==
  UNION { bks[i].seats : i \in { j \in DOMAIN bks :
              /\ bks[j].schedule_id = schedule_id
              /\ bks[j].status = "CONFIRMED"
              /\ DateOf(bks[j].travel_date) = travel_day } }

\* as BookedSeats, but a CANCELLED booking still holds its seats
BookedSeatsWithCancelled(bks, schedule_id, travel_day) ==
  UNION { bks[i].seats : i \in { j \in DOMAIN bks :
              /\ bks[j].schedule_id = schedule_id
              /\ bks[j].status \in {"CONFIRMED", "PENDING", "CANCELLED"}
              /\ DateOf(bks[j].travel_date) = travel_day } }

\* check_availability, lines 48-71: the seats of the CONFIRMED and PENDING bookings
\* of the schedule on the travel date
BookedSeats(bks, schedule_id, travel_day) ==
  UNION { bks[i].seats : i \in { j \in DOMAIN bks :
              /\ bks[j].schedule_id = schedule_id
              /\ bks[j].status \in ActiveStatuses
              /\ DateOf(bks[j].travel_date) = travel_day } }

Unavailable(msg, seats) ==
  [available |-> FALSE, message |-> msg, seats |-> seats, total_price |-> 0]

\* as CheckAvailability, but the seat numbers are validated before the
\* occupied seats are looked up
CheckAvailabilityRangeFirst(bks, scheds, clock, schedule_id, seats, seat_class, travel_day) ==
  IF schedule_id \notin DOMAIN scheds
    THEN Unavailable("Schedule not found", {})
  ELSE IF ~scheds[schedule_id].is_active
    THEN Unavailable("Schedule is not active", {})
  ELSE IF travel_day < DateOf(clock)
    THEN Unavailable("Cannot book past journeys", {})
  ELSE IF \E s \in seats : s < 1 \/ s > vehicle.total_seats
    THEN Unavailable("Invalid seat numbers",
                     {s \in seats : s < 1 \/ s > vehicle.total_seats})
  ELSE IF seats \cap BookedSeats(bks, schedule_id, travel_day) # {}
    THEN Unavailable("Seats are already booked",
                     seats \cap BookedSeats(bks, schedule_id, travel_day))
  ELSE IF GetPriceForClass(vehicle, seat_class, scheds[schedule_id]) = NULL
    THEN Unavailable("Class not available", {})
  ELSE [available |-> TRUE, message |-> "ok", seats |-> {},
        total_price |-> GetPriceForClass(vehicle, seat_class, scheds[schedule_id])[1]
                          * Cardinality(seats)]

\* check_availability: the six checks, in the order of the code
CheckAvailability(bks, scheds, clock, schedule_id, seats, seat_class, travel_day) ==
  IF schedule_id \notin DOMAIN scheds
    THEN Unavailable("Schedule not found", {})
  ELSE IF ~scheds[schedule_id].is_active
    THEN Unavailable("Schedule is not active", {})
  ELSE IF travel_day < DateOf(clock)
    THEN Unavailable("Cannot book past journeys", {})
  ELSE IF seats \cap BookedSeats(bks, schedule_id, travel_day) # {}
    THEN Unavailable("Seats are already booked",
                     seats \cap BookedSeats(bks, schedule_id, travel_day))
  ELSE IF \E s \in seats : s < 1 \/ s > vehicle.total_seats
    THEN Unavailable("Invalid seat numbers",
                     {s \in seats : s < 1 \/ s > vehicle.total_seats})
  ELSE IF GetPriceForClass(vehicle, seat_class, scheds[schedule_id]) = NULL
    THEN Unavailable("Class not available", {})
  ELSE [available |-> TRUE, message |-> "ok", seats |-> {},
        total_price |-> GetPriceForClass(vehicle, seat_class, scheds[schedule_id])[1]
                          * Cardinality(seats)]

(* ------------------- GET /availability/{schedule_id} ----------------- *)
\* get_seat_availability: travel_date is <<day>> or NULL (no filter on the date)
GetSeatAvailability(bks, scheds, schedule_id, travel_date) ==
  IF schedule_id \notin DOMAIN scheds
    THEN [found |-> FALSE, booked_seats |-> {}, available_seats |-> {}]
    ELSE LET booked == UNION { bks[i].seats : i \in { j \in DOMAIN bks :
                          /\ bks[j].schedule_id = schedule_id
                          /\ bks[j].status \in {"CONFIRMED", "PENDING"}
                          /\ (travel_date # NULL =>
                                DateOf(bks[j].travel_date) = travel_date[1]) } }
         IN [found |-> TRUE, booked_seats |-> booked,
             available_seats |-> (1..vehicle.total_seats) \ booked]

(* ----------------------------- requests -------------------------------- *)
\* what the caller of a request is told: the outcome, the seats an error names,
\* and whether the payment gateway was invoked ("none", "success", "failure")
Response(result, seats, gateway) ==
  [result |-> result, seats |-> seats, gateway |-> gateway]

\* what a request leaves behind: the tables, the payment-id sequence, the response
Outcome(bks, pays, npid, resp) ==
  [bookings |-> bks, payments |-> pays, next_payment_id |-> npid, response |-> resp]

\* a request refused with no write
Rejected(bks, pays, npid, msg) == Outcome(bks, pays, npid, Response(msg, {}, "none"))

\* BookingCreate validation, then BookingService.create_booking
CreateBookingOutcome(bks, pays, npid, scheds, clock, u, schedule_id, seats, seat_class, travel_day) ==
  LET av == CheckAvailability(bks, scheds, clock, schedule_id, seats, seat_class, travel_day)
  IN IF travel_day < DateOf(clock)
       THEN Rejected(bks, pays, npid, "Travel date cannot be in the past")
     ELSE IF ~av.available
       THEN Outcome(bks, pays, npid, Response(av.message, av.seats, "none"))
     ELSE Outcome(Append(bks,
                    [user_id |-> u, schedule_id |-> schedule_id, seats |-> seats,
                     seat_class |-> seat_class, total_price |-> av.total_price,
                     status |-> "CART", pnr |-> NULL,
                     travel_date |-> travel_day * MinutesPerDay,
                     expires_at |-> clock + BOOKING_EXPIRY_MINUTES]),
                  pays, npid, Response("ok", {}, "none"))

(* ------------------------- payment orchestration ---------------------- *)
\* generate_pnr() of payment_service: a random code; BookingService._generate_pnr:
\* "TSY" followed by a random code
PaymentPnrs == { <<"", n>> : n \in 1..NumPnrs }
ServicePnrs == { <<"TSY", n>> : n \in 1..NumPnrs }

\* bookings.pnr is UNIQUE: writing `code` into row bid violates it when another row holds it
PnrTaken(bks, bid, code) == \E j \in DOMAIN bks : j # bid /\ bks[j].pnr = code

(* --------------------------- discounts -------------------------------- *)
Max(a, b) == IF a >= b THEN a ELSE b

\* round((amount * percent) / 100, 2): every order amount of the model is a
\* whole multiple of 100, so the quotient is whole and the rounding keeps it
PercentOf(amount, percent) == (amount * percent) \div 100

\* _compute_user_total_bookings: the user's CONFIRMED or COMPLETED bookings
ComputeUserTotalBookings(bks, user_id) ==
  Cardinality({ i \in DOMAIN bks : /\ bks[i].user_id = user_id
                                    /\ bks[i].status \in {"CONFIRMED", "COMPLETED"} })

\* coupons table: the three rows init_db inserts (and _seed_default_coupon_if_known
\* re-creates on demand).  0 stands for an unset (None) limit, cap or amount, which
\* the code tests by truthiness; user_usage_limit is the column default 1.
Coupons ==
  [WELCOME10 |-> [code |-> "WELCOME10", coupon_type |-> "FIRST_TIME",
                  discount_percent |-> 10, discount_amount |-> 0,
                  min_order_value |-> 500, max_discount |-> 200,
                  usage_limit |-> 1000, usage_count |-> 0,
                  user_usage_limit |-> 1, is_active |-> TRUE,
                  valid_from |-> 0, valid_until |-> 365 * MinutesPerDay],
   SUMMER25  |-> [code |-> "SUMMER25", coupon_type |-> "SEASONAL",
                  discount_percent |-> 25, discount_amount |-> 0,
                  min_order_value |-> 1000, max_discount |-> 500,
                  usage_limit |-> 500, usage_count |-> 0,
                  user_usage_limit |-> 1, is_active |-> TRUE,
                  valid_from |-> 0, valid_until |-> 90 * MinutesPerDay],
   FIXED100  |-> [code |-> "FIXED100", coupon_type |-> "FIXED_AMOUNT",
                  discount_percent |-> 0, discount_amount |-> 100,
                  min_order_value |-> 1000, max_discount |-> 0,
                  usage_limit |-> 200, usage_count |-> 0,
                  user_usage_limit |-> 1, is_active |-> TRUE,
                  valid_from |-> 0, valid_until |-> 30 * MinutesPerDay]]

\* Coupon.is_valid; every coupon row is inside its validity window for the
\* three weeks the clock covers
IsValid(c, clock) ==
  IF ~c.is_active THEN [ok |-> FALSE, reason |-> "Coupon is not active"]
  ELSE IF clock < c.valid_from THEN [ok |-> FALSE, reason |-> "Coupon is not yet valid"]
  ELSE IF clock > c.valid_until THEN [ok |-> FALSE, reason |-> "Coupon has expired"]
  ELSE IF c.usage_limit # 0 /\ c.usage_count >= c.usage_limit
    THEN [ok |-> FALSE, reason |-> "Coupon usage limit exceeded"]
  ELSE [ok |-> TRUE, reason |-> "Valid"]

\* as CalculateDiscount, but max_discount is not applied
CalculateDiscountNoCap(c, order_amount, clock) ==
  IF ~IsValid(c, clock).ok THEN [discount |-> 0, msg |-> IsValid(c, clock).reason]
  ELSE IF order_amount < c.min_order_value
    THEN [discount |-> 0, msg |-> "Minimum order value required"]
  ELSE [discount |-> IF c.coupon_type = "FIXED_AMOUNT"
                       THEN c.discount_amount
                       ELSE PercentOf(order_amount, c.discount_percent),
        msg |-> "Discount applied successfully"]

\* Coupon.calculate_discount
CalculateDiscount(c, order_amount, clock) ==
  IF ~IsValid(c, clock).ok THEN [discount |-> 0, msg |-> IsValid(c, clock).reason]
  ELSE IF order_amount < c.min_order_value
    THEN [discount |-> 0, msg |-> "Minimum order value required"]
  ELSE LET discount == IF c.coupon_type = "FIXED_AMOUNT"
                         THEN c.discount_amount
                         ELSE PercentOf(order_amount, c.discount_percent)
       IN [discount |-> IF c.max_discount # 0 /\ discount > c.max_discount
                          THEN c.max_discount
                          ELSE discount,
           msg |-> "Discount applied successfully"]

\* what the discount step hands on
Discount(valid, amount, applied, error) ==
  [valid |-> valid, discount_amount |-> amount, coupon_applied |-> applied, error |-> error]

\* as ApplyCouponRow, but user_usage_limit is not looked at
ApplyCouponRowNoUserLimit(c, booking_amount, user_usage_count, clock) ==
  IF ~IsValid(c, clock).ok
    THEN Discount(FALSE, 0, NULL, IsValid(c, clock).reason)
  ELSE IF c.min_order_value # 0 /\ booking_amount < c.min_order_value
    THEN Discount(FALSE, 0, NULL, "Minimum booking amount required")
  ELSE IF CalculateDiscount(c, booking_amount, clock).discount <= 0
    THEN Discount(FALSE, 0, NULL, CalculateDiscount(c, booking_amount, clock).msg)
  ELSE Discount(TRUE, CalculateDiscount(c, booking_amount, clock).discount, <<c.code>>, "")

\* apply_coupon, on the coupon row c, with user_usage_count the user's
\* COMPLETED payments that carry the coupon
ApplyCouponRow(c, booking_amount, user_usage_count, clock) ==
  IF ~IsValid(c, clock).ok
    THEN Discount(FALSE, 0, NULL, IsValid(c, clock).reason)
  ELSE IF c.min_order_value # 0 /\ booking_amount < c.min_order_value
    THEN Discount(FALSE, 0, NULL, "Minimum booking amount required")
  ELSE IF c.user_usage_limit # 0 /\ user_usage_count >= c.user_usage_limit
    THEN Discount(FALSE, 0, NULL, "You have already used this coupon")
  ELSE IF CalculateDiscount(c, booking_amount, clock).discount <= 0
    THEN Discount(FALSE, 0, NULL, CalculateDiscount(c, booking_amount, clock).msg)
  ELSE Discount(TRUE, CalculateDiscount(c, booking_amount, clock).discount, <<c.code>>, "")

\* apply_coupon: the lookup, then the checks on the row
ApplyCoupon(bks, pays, clock, coupon_code, booking_amount, user_id) ==
  IF coupon_code \notin DOMAIN Coupons
    THEN Discount(FALSE, 0, NULL, "Invalid coupon code")
    ELSE ApplyCouponRow(Coupons[coupon_code], booking_amount,
           Cardinality({ p \in pays : /\ bks[p.booking_id].user_id = user_id
                                       /\ p.coupon_code = <<coupon_code>>
                                       /\ p.status = "COMPLETED" }),
           clock)
SilverCodes == {"SILVER20", "SILVERPASS"}
GoldCodes == {"GOLD40", "GOLDPASS"}

\* as PassDiscount, but a Gold code is honoured from the Silver threshold on
PassDiscountGoldAtSilver(coupon_upper, total_bookings, original_amount) ==
  IF coupon_upper \in SilverCodes /\ total_bookings >= SilverPassBookings
    THEN Discount(TRUE, PercentOf(original_amount, SilverPassPercent), <<coupon_upper>>, "")
  ELSE IF coupon_upper \in GoldCodes /\ total_bookings >= SilverPassBookings
    THEN Discount(TRUE, PercentOf(original_amount, GoldPassPercent), <<coupon_upper>>, "")
  ELSE Discount(FALSE, 0, NULL, "Pass requires more bookings")

\* process_booking_payment, lines 210-233: a Silver or Gold pass code
PassDiscount(coupon_upper, total_bookings, original_amount) ==
  IF coupon_upper \in SilverCodes /\ total_bookings >= SilverPassBookings
    THEN Discount(TRUE, PercentOf(original_amount, SilverPassPercent), <<coupon_upper>>, "")
  ELSE IF coupon_upper \in GoldCodes /\ total_bookings >= GoldPassBookings
    THEN Discount(TRUE, PercentOf(original_amount, GoldPassPercent), <<coupon_upper>>, "")
  ELSE Discount(FALSE, 0, NULL, "Pass requires more bookings")

\* process_booking_payment, lines 201-248: coupon is <<code>>, or NULL when the
\* request carries none; there is no discount without a coupon
ResolveDiscount(bks, pays, clock, bid, coupon) ==
  IF coupon = NULL
    THEN Discount(TRUE, 0, NULL, "")
  ELSE IF coupon[1] \in SilverCodes \cup GoldCodes
    THEN PassDiscount(coupon[1], ComputeUserTotalBookings(bks, bks[bid].user_id),
                      bks[bid].total_price)
  ELSE ApplyCoupon(bks, pays, clock, coupon[1], bks[bid].total_price, bks[bid].user_id)

PaymentRow(id, bid, amount, st, response) ==
  [id |-> id, booking_id |-> bid, amount |-> amount, status |-> st,
   gateway_response |-> response, refund_amount |-> NULL,
   discount_amount |-> 0, final_amount |-> amount, coupon_code |-> NULL]

\* as DiscountedRow, but final_amount is not reduced by the discount
DiscountedRowFullPrice(bks, pays, npid, clock, bid, coupon) ==
  LET d == ResolveDiscount(bks, pays, clock, bid, coupon)
  IN [PaymentRow(npid, bid, bks[bid].total_price, "PENDING", NULL)
        EXCEPT !.discount_amount = d.discount_amount,
               !.coupon_code = d.coupon_applied]

\* the Payment row of the request: amounts and coupon as the discount step left them
DiscountedRow(bks, pays, npid, clock, bid, coupon) ==
  LET d == ResolveDiscount(bks, pays, clock, bid, coupon)
  IN [PaymentRow(npid, bid, bks[bid].total_price, "PENDING", NULL)
        EXCEPT !.discount_amount = d.discount_amount,
               !.final_amount = Max(0, bks[bid].total_price - d.discount_amount),
               !.coupon_code = d.coupon_applied]

\* as PayGateway, but a successful payment leaves the booking PENDING
PayGatewayLeavesPending(bks, pays, npid, clock, bid, gw, code, coupon) ==
  LET row == DiscountedRow(bks, pays, npid, clock, bid, coupon)
  IN IF gw = "success"
       THEN Outcome(bks,
                    pays \cup {[row EXCEPT !.status = "COMPLETED",
                                           !.gateway_response = <<"SUCCESS">>]},
                    npid + 1, Response("ok", {}, "success"))
       ELSE Outcome(bks,
                    pays \cup {[row EXCEPT !.status = "FAILED",
                                           !.gateway_response = <<"Payment failed: ", gw>>]},
                    npid + 1, Response("Payment failed", {}, "failure"))

\* process_booking_payment, lines 352-512: the Payment row is flushed, the gateway
\* answers gw ("success" or an error message), and the result is committed
PayGateway(bks, pays, npid, clock, bid, gw, code, coupon) ==
  LET row == DiscountedRow(bks, pays, npid, clock, bid, coupon)
  IN IF gw = "success"
       THEN IF PnrTaken(bks, bid, code)
              \* commit fails (IntegrityError): rollback drops the flushed row; the
              \* best-effort UPDATE to FAILED then matches no row.  The id the row drew
              \* is never stored, so the gap in the sequence is not kept.
              THEN Outcome(bks, pays, npid,
                     Response("Failed to save payment confirmation", {}, "success"))
              ELSE Outcome([bks EXCEPT ![bid].status = "CONFIRMED", ![bid].pnr = code],
                     pays \cup {[row EXCEPT !.status = "COMPLETED",
                                            !.gateway_response = <<"SUCCESS">>]},
                     npid + 1, Response("ok", {}, "success"))
       \* FAILED is committed with the gateway's error; the HTTPException handler
       \* then rewrites gateway_response with the error detail
       ELSE Outcome(bks,
                    pays \cup {[row EXCEPT !.status = "FAILED",
                                           !.gateway_response = <<"Payment failed: ", gw>>]},
                    npid + 1, Response("Payment failed", {}, "failure"))

\* as PayAfterPending, but the FAILED row of an earlier attempt is not deleted
PayAfterPendingKeepsFailed(bks, pays, npid, clock, bid, gw, code, coupon) ==
  LET existing == {p \in pays : p.booking_id = bid}
  IN IF \E p \in existing : p.status = "COMPLETED"
       THEN Rejected(bks, pays, npid, "Payment already completed")
     ELSE IF \E p \in existing : p.status = "PENDING"
       THEN Rejected(bks, pays, npid, "Payment is already being processed")
     ELSE IF bks[bid].expires_at < clock
       THEN Outcome([bks EXCEPT ![bid].status = "EXPIRED"], pays, npid,
              Response("Booking has expired", {}, "none"))
     ELSE IF ~ResolveDiscount(bks, pays, clock, bid, coupon).valid
       THEN Rejected(bks, pays, npid, ResolveDiscount(bks, pays, clock, bid, coupon).error)
     ELSE IF existing # {}
       THEN Rejected(bks, pays, npid, "Internal error")
     ELSE PayGateway(bks, pays, npid, clock, bid, gw, code, coupon)

\* as PayAfterPending, but expires_at is not looked at
PayAfterPendingNoExpiry(bks, pays, npid, clock, bid, gw, code, coupon) ==
  LET existing == {p \in pays : p.booking_id = bid}
      kept == {p \in pays : p.booking_id # bid \/ p.status # "FAILED"}
  IN IF \E p \in existing : p.status = "COMPLETED"
       THEN Rejected(bks, pays, npid, "Payment already completed")
     ELSE IF \E p \in existing : p.status = "PENDING"
       THEN Rejected(bks, pays, npid, "Payment is already being processed")
     ELSE IF ~ResolveDiscount(bks, kept, clock, bid, coupon).valid
       THEN Outcome(bks, kept, npid,
              Response(ResolveDiscount(bks, kept, clock, bid, coupon).error, {}, "none"))
     ELSE PayGateway(bks, kept, npid, clock, bid, gw, code, coupon)

\* process_booking_payment, lines 166-199: the existing-payment check, then expiry
PayAfterPending(bks, pays, npid, clock, bid, gw, code, coupon) ==
  LET existing == {p \in pays : p.booking_id = bid}
      kept == {p \in pays : p.booking_id # bid \/ p.status # "FAILED"}
  IN IF Cardinality(existing) > 1
       \* scalar_one_or_none raises MultipleResultsFound; the request rolls back
       THEN Rejected(bks, pays, npid, "Internal error")
     ELSE IF \E p \in existing : p.status = "COMPLETED"
       THEN Rejected(bks, pays, npid, "Payment already completed")
     ELSE IF \E p \in existing : p.status = "PENDING"
       THEN Rejected(bks, pays, npid, "Payment is already being processed")
     ELSE IF bks[bid].expires_at < clock
       THEN Outcome([bks EXCEPT ![bid].status = "EXPIRED"], kept, npid,
              Response("Booking has expired", {}, "none"))
     ELSE IF ~ResolveDiscount(bks, kept, clock, bid, coupon).valid
       \* lines 201-248: the coupon is refused after the booking went PENDING and
       \* the FAILED row was deleted, both already committed
       THEN Outcome(bks, kept, npid,
              Response(ResolveDiscount(bks, kept, clock, bid, coupon).error, {}, "none"))
     ELSE IF \E p \in kept : p.booking_id = bid
       \* payments.booking_id is UNIQUE: the INSERT fails at flush
       THEN Outcome(bks, kept, npid, Response("Internal error", {}, "none"))
     ELSE PayGateway(bks, kept, npid, clock, bid, gw, code, coupon)

\* as ProcessBookingPayment, but a CART booking moves to PENDING with no re-check
ProcessBookingPaymentNoRecheck(bks, pays, npid, scheds, clock, u, bid, gw, code, coupon) ==
  IF bid \notin DOMAIN bks
    THEN Rejected(bks, pays, npid, "Booking not found")
  ELSE IF bks[bid].user_id # u
    THEN Rejected(bks, pays, npid, "Access denied")
  ELSE IF bks[bid].status \notin {"CART", "PENDING"}
    THEN Rejected(bks, pays, npid, "Cannot pay for booking")
  ELSE PayAfterPending([bks EXCEPT ![bid].status = "PENDING"],
                       pays, npid, clock, bid, gw, code, coupon)

\* process_booking_payment, lines 108-164: lookup, ownership, status, and for a
\* CART booking the availability re-check and the move to PENDING
ProcessBookingPayment(bks, pays, npid, scheds, clock, u, bid, gw, code, coupon) ==
  IF bid \notin DOMAIN bks
    THEN Rejected(bks, pays, npid, "Booking not found")
  ELSE IF bks[bid].user_id # u
    THEN Rejected(bks, pays, npid, "Access denied")
  ELSE IF bks[bid].status \notin {"CART", "PENDING"}
    THEN Rejected(bks, pays, npid, "Cannot pay for booking")
  ELSE IF bks[bid].status = "CART"
    THEN LET b == bks[bid]
             av == CheckAvailability(bks, scheds, clock, b.schedule_id, b.seats,
                                     b.seat_class, DateOf(b.travel_date))
         IN IF ~av.available
              THEN Outcome(bks, pays, npid, Response(av.message, av.seats, "none"))
              ELSE PayAfterPending(
                     [bks EXCEPT ![bid].status = "PENDING",
                                 ![bid].total_price = av.total_price],
                     pays, npid, clock, bid, gw, code, coupon)
  ELSE PayAfterPending(bks, pays, npid, clock, bid, gw, code, coupon)

(* ------------------------- cancellation and expiry -------------------- *)
\* as CalculateRefundAmount, but small refunds are paid out
CalculateRefundAmountNoMinimum(original_amount, booking_date, cancellation_date) ==
  LET minutes_before == booking_date - cancellation_date
      refund_percentage ==
        IF minutes_before >= 48 * MinutesPerHour THEN 90
        ELSE IF minutes_before >= 24 * MinutesPerHour THEN 75
        ELSE IF minutes_before >= 12 * MinutesPerHour THEN 50
        ELSE IF minutes_before >= 4 * MinutesPerHour THEN 25
        ELSE 0
  IN original_amount * refund_percentage

\* calculate_refund_amount of routes/payment.py.  Amounts are whole taka and
\* the result is in hundredths of a taka, so amount * percentage is the refund
\* exactly and round(refund_amount, 2) changes nothing; hours_before >= 48
\* is minutes_before >= 48 * 60.
CalculateRefundAmount(original_amount, booking_date, cancellation_date) ==
  LET minutes_before == booking_date - cancellation_date
      refund_percentage ==
        IF minutes_before >= 48 * MinutesPerHour THEN 90
        ELSE IF minutes_before >= 24 * MinutesPerHour THEN 75
        ELSE IF minutes_before >= 12 * MinutesPerHour THEN 50
        ELSE IF minutes_before >= 4 * MinutesPerHour THEN 25
        ELSE 0
      refund_amount == original_amount * refund_percentage
  IN IF refund_amount > 0 /\ refund_amount < MinRefundCents
       THEN 0
       ELSE refund_amount

\* calculate_refund_amount of routes/cancel.py: hours_before_departure is the
\* placeholder 25, so the refund is 90% of the amount
CancelRefundAmount(amount) == (amount * CancelRefundPercent) \div 100

\* POST /cancel/booking/{booking_id}
CancelBookingOutcome(bks, pays, npid, u, bid) ==
  IF bid \notin DOMAIN bks
    THEN Rejected(bks, pays, npid, "Booking not found")
  ELSE IF bks[bid].user_id # u /\ ~IsAdmin(u)
    THEN Rejected(bks, pays, npid, "Not authorized to cancel this booking")
  ELSE IF bks[bid].status \notin {"PENDING", "CONFIRMED", "CART"}
    THEN Rejected(bks, pays, npid, "Cannot cancel booking")   \* "... with status: <status>"
  ELSE Outcome([bks EXCEPT ![bid].status = "CANCELLED"],
               { IF p.booking_id = bid /\ p.status = "COMPLETED"
                   THEN [p EXCEPT !.refund_amount = <<CancelRefundAmount(p.amount)>>]
                   ELSE p : p \in pays },
               npid, Response("ok", {}, "none"))

\* BookingService.cancel_booking, lines 227-247: minutes from now to the departure
TimeToDeparture(b, scheds, clock) ==
  (DateOf(b.travel_date) * MinutesPerDay + scheds[b.schedule_id].departure_time) - clock

\* as ServiceCancelBookingOutcome, but the lookup is not narrowed to the caller
ServiceCancelBookingAnyCaller(bks, pays, npid, scheds, clock, u, bid) ==
  IF bid \notin DOMAIN bks
    THEN Rejected(bks, pays, npid, "Booking not found")
  ELSE IF bks[bid].status \in {"CANCELLED", "EXPIRED"}
    THEN Rejected(bks, pays, npid, "Booking is already cancelled")
  ELSE IF /\ bks[bid].schedule_id \in DOMAIN scheds
          /\ TimeToDeparture(bks[bid], scheds, clock) < CancelCutoffMinutes
          /\ ~IsAdmin(u)
    THEN Rejected(bks, pays, npid, "Cannot cancel booking within 2 hours of departure")
  ELSE Outcome([bks EXCEPT ![bid].status = "CANCELLED"], pays, npid,
               Response("ok", {}, "none"))

\* DELETE /booking/{booking_id} : BookingService.cancel_booking
ServiceCancelBookingOutcome(bks, pays, npid, scheds, clock, u, bid) ==
  IF bid \notin DOMAIN bks \/ (~IsAdmin(u) /\ bks[bid].user_id # u)
    THEN Rejected(bks, pays, npid, "Booking not found")
  ELSE IF bks[bid].status \in {"CANCELLED", "EXPIRED"}
    THEN Rejected(bks, pays, npid, "Booking is already cancelled")
  ELSE IF /\ bks[bid].schedule_id \in DOMAIN scheds
          /\ TimeToDeparture(bks[bid], scheds, clock) < CancelCutoffMinutes
          /\ ~IsAdmin(u)
    THEN Rejected(bks, pays, npid, "Cannot cancel booking within 2 hours of departure")
  ELSE Outcome([bks EXCEPT ![bid].status = "CANCELLED"], pays, npid,
               Response("ok", {}, "none"))

\* as ExpiredBookings, but CART bookings are not selected
ExpiredBookingsPendingOnly(bks, clock) ==
  { i \in DOMAIN bks : bks[i].status = "PENDING" /\ bks[i].expires_at < clock }

\* the rows the sweep selects
ExpiredBookings(bks, clock) ==
  { i \in DOMAIN bks : bks[i].status \in {"PENDING", "CART"} /\ bks[i].expires_at < clock }

\* BookingService.auto_cancel_expired_bookings; the response is the count
AutoCancelOutcome(bks, pays, npid, clock) ==
  Outcome([i \in DOMAIN bks |->
              IF i \in ExpiredBookings(bks, clock)
                THEN [bks[i] EXCEPT !.status = "EXPIRED"]
                ELSE bks[i]],
          pays, npid,
          Response(Cardinality(ExpiredBookings(bks, clock)), {}, "none"))

\* auto_cancel_expired_bookings of routes/cancel.py: the same selection and
\* the same writes; the loop body adds to cancelled_count twice per booking
RouteAutoCancelOutcome(bks, pays, npid, clock) ==
  Outcome([i \in DOMAIN bks |->
              IF i \in ExpiredBookings(bks, clock)
                THEN [bks[i] EXCEPT !.status = "EXPIRED"]
                ELSE bks[i]],
          pays, npid,
          Response(2 * Cardinality(ExpiredBookings(bks, clock)), {}, "none"))

\* POST /cancel/run-auto-cancel : admins only
RunAutoCancelOutcome(bks, pays, npid, clock, u) ==
  IF ~IsAdmin(u)
    THEN Rejected(bks, pays, npid, "Admin access required")
    ELSE RouteAutoCancelOutcome(bks, pays, npid, clock)

(* --------------------- other booking endpoints ------------------------ *)
\* PUT /booking/{booking_id} with BookingUpdate.status set to st
UpdateBookingOutcome(bks, pays, npid, u, bid, st) ==
  IF bid \notin DOMAIN bks
    THEN Rejected(bks, pays, npid, "Booking not found")
  ELSE IF bks[bid].user_id # u /\ ~IsAdmin(u)
    THEN Rejected(bks, pays, npid, "Access denied")
  ELSE IF bks[bid].status # "PENDING"
    THEN Rejected(bks, pays, npid, "Can only update pending bookings")
  ELSE Outcome([bks EXCEPT ![bid].status = st], pays, npid, Response("ok", {}, "none"))

\* POST /booking/confirm/{booking_id} : BookingService.confirm_booking
ConfirmBookingOutcome(bks, pays, npid, bid, code) ==
  IF bid \notin DOMAIN bks
    THEN Rejected(bks, pays, npid, "Booking not found")
  ELSE IF bks[bid].status # "PENDING"
    THEN Rejected(bks, pays, npid, "Booking is not in pending status")
  ELSE IF PnrTaken(bks, bid, code)
    \* commit fails (IntegrityError) and the request rolls back
    THEN Rejected(bks, pays, npid, "Internal error")
  ELSE Outcome([bks EXCEPT ![bid].status = "CONFIRMED", ![bid].pnr = code],
               pays, npid, Response("ok", {}, "none"))

(* ------------------------------- Init --------------------------------- *)
\* The tables at start-up: one active schedule per id, leaving at 01:00 (the
\* first) or 12:00, and no booking or payment made through the API yet.  The
\* demo bookings init_db seeds into an empty database carry no schedule_id, so
\* no availability query ever sees them; they are not rows of this model.
Init ==
  /\ bookings = <<>>
  /\ payments = {}
  /\ next_payment_id = 1
  /\ schedules = [s \in ScheduleIds |->
        [vehicle_id |-> 1, is_active |-> TRUE, base_price |-> <<BasePrice>>,
         departure_time |-> IF s = 1 THEN 60 ELSE 720]]
  /\ now = 0
  /\ gateway_charges = [b \in 1..MaxBookings |-> 0]
  /\ inflight = [r \in Requests |-> Idle]
  /\ overlapped = FALSE

(* ------------------------------ actions ------------------------------- *)
\* time passes
Tick ==
  /\ \E t \in Instants : t > now /\ now' = t
  /\ UNCHANGED <<bookings, payments, next_payment_id, schedules, gateway_charges,
                  inflight, overlapped>>

\* POST /booking/
CreateBooking(u, schedule_id, seats, seat_class, travel_day) ==
  /\ Len(bookings) < MaxBookings
  /\ LET o == CreateBookingOutcome(bookings, payments, next_payment_id, schedules, now,
                                   u, schedule_id, seats, seat_class, travel_day)
     IN bookings' = o.bookings
  /\ UNCHANGED <<payments, next_payment_id, schedules, now, gateway_charges,
                  inflight, overlapped>>

\* POST /payment/
Pay(u, bid, gw, code, coupon) ==
  /\ next_payment_id <= MaxPayments
  /\ gateway_charges[bid] < MaxCharges
  /\ LET o == ProcessBookingPayment(bookings, payments, next_payment_id, schedules, now,
                                    u, bid, gw, code, coupon)
     IN /\ bookings' = o.bookings
        /\ payments' = o.payments
        /\ next_payment_id' = o.next_payment_id
        /\ gateway_charges' = IF o.response.gateway = "success"
                                THEN [gateway_charges EXCEPT ![bid] = @ + 1]
                                ELSE gateway_charges
  /\ UNCHANGED <<schedules, now, inflight, overlapped>>

\* POST /cancel/booking/{booking_id}
CancelBooking(u, bid) ==
  /\ LET o == CancelBookingOutcome(bookings, payments, next_payment_id, u, bid)
     IN bookings' = o.bookings /\ payments' = o.payments
  /\ UNCHANGED <<next_payment_id, schedules, now, gateway_charges,
                  inflight, overlapped>>

\* DELETE /booking/{booking_id}
DeleteBooking(u, bid) ==
  /\ LET o == ServiceCancelBookingOutcome(bookings, payments, next_payment_id, schedules,
                                          now, u, bid)
     IN bookings' = o.bookings
  /\ UNCHANGED <<payments, next_payment_id, schedules, now, gateway_charges,
                  inflight, overlapped>>

\* POST /cancel/run-auto-cancel, the one caller of an expiry sweep in the
\* running application (lifespan does not start run_booking_cleanup)
RunAutoCancelManually(u) ==
  /\ bookings' = RunAutoCancelOutcome(bookings, payments, next_payment_id, now, u).bookings
  /\ UNCHANGED <<payments, next_payment_id, schedules, now, gateway_charges,
                  inflight, overlapped>>

\* PUT /booking/{booking_id}
UpdateBooking(u, bid, st) ==
  /\ LET o == UpdateBookingOutcome(bookings, payments, next_payment_id, u, bid, st)
     IN bookings' = o.bookings
  /\ UNCHANGED <<payments, next_payment_id, schedules, now, gateway_charges,
                  inflight, overlapped>>

\* POST /booking/confirm/{booking_id}
ConfirmBooking(bid, code) ==
  /\ LET o == ConfirmBookingOutcome(bookings, payments, next_payment_id, bid, code)
     IN bookings' = o.bookings
  /\ UNCHANGED <<payments, next_payment_id, schedules, now, gateway_charges,
                  inflight, overlapped>>

CreateStep ==
  \E u \in Users, s \in 1..(NumSchedules + 1), seats \in SeatLists, d \in TravelDays :
     CreateBooking(u, s, seats, "ECONOMY", d)

\* the coupon_code of a payment request: none, or one of these codes
RequestCoupons == {NULL, <<"WELCOME10">>}

PayStep ==
  \E u \in Users, bid \in 1..MaxBookings, gw \in {"success"} \cup GatewayErrors,
     code \in PaymentPnrs, coupon \in RequestCoupons : Pay(u, bid, gw, code, coupon)

CancelStep == \E u \in Users, bid \in 1..MaxBookings : CancelBooking(u, bid)

DeleteStep == \E u \in Users, bid \in 1..MaxBookings : DeleteBooking(u, bid)

UpdateStep ==
  \E u \in Users, bid \in 1..MaxBookings, st \in BookingStatus : UpdateBooking(u, bid, st)

RunAutoCancelStep == \E u \in Users : RunAutoCancelManually(u)

ConfirmStep == \E bid \in 1..MaxBookings, code \in ServicePnrs : ConfirmBooking(bid, code)

Next ==
  \/ Tick
  \/ CreateStep
  \/ PayStep
  \/ CancelStep
  \/ DeleteStep
  \/ RunAutoCancelStep
  \/ UpdateStep
  \/ ConfirmStep

Spec == Init /\ [][Next]_vars

\* the tasks lifespan creates at start-up; run_booking_cleanup is not one of them
BackgroundTasks == {"cleanup_stale_connections_task", "arrival_reminder_loop"}

\* The running application: time passes whatever the users do.  No request is
\* ever bound to arrive, and neither task of BackgroundTasks writes a booking,
\* so the passing of time is the only step that is certain to be taken.
SpecLive == Spec /\ WF_vars(Tick)
(* ======================= properties of the model ======================= *)
GatewayAnswers == {"success"} \cup GatewayErrors

Active(b) == b.status \in {"PENDING", "CONFIRMED"}

SameTrip(a, b) ==
  a.schedule_id = b.schedule_id /\ DateOf(a.travel_date) = DateOf(b.travel_date)

\* the seats of booking bid that another PENDING or CONFIRMED booking of the
\* same schedule and travel date lists
HeldByOthers(bid) ==
  { s \in bookings[bid].seats :
      \E j \in BookingIds : /\ j # bid
                            /\ Active(bookings[j])
                            /\ SameTrip(bookings[j], bookings[bid])
                            /\ s \in bookings[j].seats }

\* what a payment request made now would leave behind
PayOutcome(u, bid, gw, code) ==
  ProcessBookingPayment(bookings, payments, next_payment_id, schedules, now, u, bid, gw, code,
                        NULL)

\* the same for a request that carries coupon_code
PayCouponOutcome(u, bid, gw, code, coupon_code) ==
  ProcessBookingPayment(bookings, payments, next_payment_id, schedules, now, u, bid, gw, code,
                        <<coupon_code>>)

\* the journey of booking bid can still be booked: its schedule is there and
\* active and its travel date is not before today
Bookable(bid) ==
  /\ bookings[bid].schedule_id \in DOMAIN schedules
  /\ schedules[bookings[bid].schedule_id].is_active
  /\ DateOf(bookings[bid].travel_date) >= DateOf(now)

\* C1: no two distinct bookings of the same schedule and travel date that are
\* both PENDING or CONFIRMED have a seat number in common.
C1_NoSharedSeat ==
  \A i, j \in BookingIds :
     (i # j /\ Active(bookings[i]) /\ Active(bookings[j])
        /\ SameTrip(bookings[i], bookings[j]))
       => bookings[i].seats \cap bookings[j].seats = {}

\* two bookings want the same seat of the same journey; one is CONFIRMED and
\* the payment of the other, still CART, is turned away
C1_Witness ==
  \E i, j \in BookingIds :
     /\ i # j
     /\ bookings[i].status = "CONFIRMED"
     /\ bookings[j].status = "CART"
     /\ SameTrip(bookings[i], bookings[j])
     /\ bookings[i].seats \cap bookings[j].seats # {}
     /\ \A c \in PaymentPnrs :
          PayOutcome(bookings[j].user_id, j, "success", c).bookings[j].status = "CART"

\* C2 as claimed: payment by the owner for a CART booking with a seat held by
\* another PENDING or CONFIRMED booking of the same schedule and date is rejected
\* with the seat-conflict error naming those seats; the booking stays CART, no
\* Payment row is created, the gateway is not invoked.
C2_AsClaimed ==
  \A bid \in BookingIds, gw \in GatewayAnswers, c \in PaymentPnrs :
     (bookings[bid].status = "CART" /\ HeldByOthers(bid) # {})
       => LET o == PayOutcome(bookings[bid].user_id, bid, gw, c)
          IN /\ o.response.result = "Seats are already booked"
             /\ o.response.seats = HeldByOthers(bid)
             /\ o.response.gateway = "none"
             /\ o.bookings = bookings
             /\ o.payments = payments

\* C2 amended: such a payment is always rejected with the booking left CART,
\* no Payment row created and the gateway not invoked; the error is the
\* seat-conflict error naming the seats when the journey can still be booked
\* (schedule active, travel date not past), else the error of the earlier check.
C2_SeatConflictRejected ==
  \A bid \in BookingIds, gw \in GatewayAnswers, c \in PaymentPnrs :
     (bookings[bid].status = "CART" /\ HeldByOthers(bid) # {})
       => LET o == PayOutcome(bookings[bid].user_id, bid, gw, c)
          IN /\ o.response.gateway = "none"
             /\ o.bookings = bookings
             /\ o.payments = payments
             /\ o.next_payment_id = next_payment_id
             /\ IF Bookable(bid)
                  THEN /\ o.response.result = "Seats are already booked"
                       /\ o.response.seats = HeldByOthers(bid)
                  ELSE o.response.result \in {"Schedule not found",
                          "Schedule is not active", "Cannot book past journeys"}

\* a CART booking whose journey can still be booked and whose seat a PENDING
\* booking holds: its owner's payment gets the seat-conflict error
C2_Witness ==
  \E bid \in BookingIds :
     /\ bookings[bid].status = "CART"
     /\ Bookable(bid)
     /\ HeldByOthers(bid) # {}
     /\ \E j \in BookingIds : j # bid /\ bookings[j].status = "PENDING"
                                /\ SameTrip(bookings[j], bookings[bid])
     /\ PayOutcome(bookings[bid].user_id, bid, "success", <<"", 1>>).response.result
          = "Seats are already booked"

\* the journeys and seats an availability question may name
Trips == ScheduleIds \X TravelDays

\* some PENDING or CONFIRMED booking of the schedule and date lists the seat
Listed(schedule_id, travel_day, seat) ==
  \E j \in BookingIds : /\ bookings[j].schedule_id = schedule_id
                        /\ DateOf(bookings[j].travel_date) = travel_day
                        /\ bookings[j].status \in {"PENDING", "CONFIRMED"}
                        /\ seat \in bookings[j].seats

C4_PnrLifecycle ==
  [][\A i \in 1..Len(bookings') :
        /\ bookings'[i].status = "CONFIRMED" => bookings'[i].pnr # NULL
        /\ (i \in BookingIds /\ bookings[i].pnr # NULL)
             => bookings'[i].pnr = bookings[i].pnr
        /\ (bookings'[i].pnr # NULL /\ (i \notin BookingIds \/ bookings[i].pnr = NULL))
             => bookings'[i].status = "CONFIRMED"]_vars

\* the booking a payment row belongs to
BookingOf(p) == bookings[p.booking_id]

PaymentsOf(pays, bid) == { p \in pays : p.booking_id = bid }

\* C6: a booking has at most one Payment row; a payment request for a booking
\* whose Payment is COMPLETED or PENDING is rejected without invoking the gateway;
\* at most one gateway call for a booking succeeds; a FAILED Payment is deleted
\* before the new Payment row is created.
C6_OnePaymentOneCharge ==
  /\ \A bid \in BookingIds : Cardinality(PaymentsOf(payments, bid)) <= 1
  /\ \A bid \in BookingIds, u \in Users, gw \in GatewayAnswers, c \in PaymentPnrs :
        LET o == PayOutcome(u, bid, gw, c)
        IN /\ (\E p \in PaymentsOf(payments, bid) : p.status \in {"COMPLETED", "PENDING"})
                => (o.response.gateway = "none" /\ o.payments = payments)
           /\ \A p \in PaymentsOf(payments, bid) :
                (p.status = "FAILED" /\ PaymentsOf(o.payments, bid) \ {p} # {})
                  => p \notin o.payments
  /\ \A bid \in 1..MaxBookings : gateway_charges[bid] <= 1

\* the status changes the lifecycle allows, and those a single request may
\* chain (payment takes a CART booking through PENDING)
StatusEdges ==
  { <<"CART", "PENDING">>, <<"PENDING", "CONFIRMED">>,
    <<"CART", "EXPIRED">>, <<"PENDING", "EXPIRED">>,
    <<"CART", "CANCELLED">>, <<"PENDING", "CANCELLED">>, <<"CONFIRMED", "CANCELLED">> }

StatusPaths == StatusEdges \cup { <<"CART", "CONFIRMED">> }

\* C7: a booking is created in CART and every later change of its status
\* follows the edges CART->PENDING, PENDING->CONFIRMED, CART|PENDING->EXPIRED,
\* CART|PENDING|CONFIRMED->CANCELLED.
C7_StatusEdges ==
  [][\A i \in 1..Len(bookings') :
        IF i \in BookingIds
          THEN \/ bookings'[i].status = bookings[i].status
               \/ <<bookings[i].status, bookings'[i].status>> \in StatusPaths
          ELSE bookings'[i].status = "CART"]_vars
\* C8: when the gateway reports failure the Payment row ends FAILED, carrying
\* the gateway's error message, and the booking is PENDING; a later payment
\* request by the owner, not after expires_at, for the booking still PENDING
\* with its FAILED row is processed again: the FAILED row is removed, a new
\* Payment is created and the gateway is invoked.
C8_FailedThenRetry ==
  \A bid \in BookingIds, gw \in GatewayAnswers, c \in PaymentPnrs :
     LET o == PayOutcome(bookings[bid].user_id, bid, gw, c)
         fresh == { q \in PaymentsOf(o.payments, bid) : q.id = next_payment_id }
     IN /\ o.response.gateway = "failure"
             => /\ gw \in GatewayErrors
                /\ PaymentsOf(o.payments, bid) = fresh
                /\ \E q \in fresh : /\ q.status = "FAILED"
                                    /\ q.gateway_response = <<"Payment failed: ", gw>>
                /\ o.bookings[bid].status = "PENDING"
        /\ \A p \in PaymentsOf(payments, bid) :
             (p.status = "FAILED" /\ bookings[bid].status = "PENDING"
                /\ now <= bookings[bid].expires_at)
               => /\ o.response.gateway # "none"
                  /\ o.response.result \in
                       {"ok", "Payment failed", "Failed to save payment confirmation"}
                  /\ p \notin o.payments
                  /\ p.id # next_payment_id
                  /\ (o.response.result # "Failed to save payment confirmation"
                        => fresh # {} /\ PaymentsOf(o.payments, bid) = fresh)

\* a PENDING booking whose second payment attempt failed at the gateway too:
\* the row of the first attempt is gone, and at expires_at sharp a third
\* attempt would be confirmed
C8_Witness ==
  \E bid \in BookingIds :
     /\ bookings[bid].status = "PENDING"
     /\ now = bookings[bid].expires_at
     /\ next_payment_id = 3
     /\ Len(bookings) = 1
     /\ \E p \in payments : /\ p.booking_id = bid /\ p.id = 2 /\ p.status = "FAILED"
                            /\ p.gateway_response = <<"Payment failed: ", "Invalid payment details">>
     /\ PayOutcome(bookings[bid].user_id, bid, "success", <<"", 1>>).bookings[bid].status
          = "CONFIRMED"

\* the booking passes the availability re-check of the payment request
PassesRecheck(bid) ==
  CheckAvailability(bookings, schedules, now, bookings[bid].schedule_id,
                    bookings[bid].seats, bookings[bid].seat_class,
                    DateOf(bookings[bid].travel_date)).available

\* C9 as claimed: a payment request by the owner for a CART or PENDING booking
\* whose expires_at is earlier than now fails as expired, leaves the booking
\* EXPIRED, creates no Payment row and does not invoke the gateway.
C9_AsClaimed ==
  \A bid \in BookingIds, gw \in GatewayAnswers, c \in PaymentPnrs :
     (bookings[bid].status \in {"CART", "PENDING"} /\ bookings[bid].expires_at < now)
       => LET o == PayOutcome(bookings[bid].user_id, bid, gw, c)
          IN /\ o.response.result = "Booking has expired"
             /\ o.bookings[bid].status = "EXPIRED"
             /\ o.payments \subseteq payments
             /\ o.response.gateway = "none"

\* C9 amended: for a PENDING booking, or a CART booking that passes the
\* availability re-check, with expires_at earlier than now and no COMPLETED or
\* PENDING Payment, the owner's payment request fails as expired, leaves the
\* booking EXPIRED, creates no Payment row (a FAILED row is deleted) and does not
\* invoke the gateway; a CART booking that fails the re-check is rejected with
\* the availability error and stays CART, expired or not.
C9_ExpiredPayment ==
  \A bid \in BookingIds, gw \in GatewayAnswers, c \in PaymentPnrs :
     (bookings[bid].status \in {"CART", "PENDING"} /\ bookings[bid].expires_at < now)
       => LET o == PayOutcome(bookings[bid].user_id, bid, gw, c)
          IN /\ o.response.gateway = "none"
             /\ o.next_payment_id = next_payment_id
             /\ \A i \in BookingIds \ {bid} : o.bookings[i] = bookings[i]
             /\ IF bookings[bid].status = "CART" /\ ~PassesRecheck(bid)
                  THEN /\ o.bookings = bookings
                       /\ o.payments = payments
                       /\ o.response.result \in
                            {"Schedule not found", "Schedule is not active",
                             "Cannot book past journeys", "Seats are already booked",
                             "Invalid seat numbers", "Class not available"}
                  ELSE IF \E p \in PaymentsOf(payments, bid) :
                             p.status \in {"COMPLETED", "PENDING"}
                    THEN /\ o.payments = payments
                         /\ o.bookings[bid].status = "PENDING"
                    ELSE /\ o.response.result = "Booking has expired"
                         /\ o.bookings[bid].status = "EXPIRED"
                         /\ o.payments = { p \in payments : p.booking_id # bid }

\* an expired PENDING booking with a FAILED payment, and an expired CART
\* booking that passes the re-check: paying either expires it
C9_Witness ==
  /\ \E bid \in BookingIds :
        /\ bookings[bid].status = "PENDING"
        /\ bookings[bid].expires_at < now
        /\ PaymentsOf(payments, bid) # {}
        /\ PayOutcome(bookings[bid].user_id, bid, "success", <<"", 1>>).bookings[bid].status
             = "EXPIRED"
  /\ \E bid \in BookingIds :
        /\ bookings[bid].status = "CART"
        /\ bookings[bid].expires_at < now
        /\ PassesRecheck(bid)
        /\ PayOutcome(bookings[bid].user_id, bid, "success", <<"", 1>>).bookings[bid].status
             = "EXPIRED"
\* what the two cancellation endpoints would leave behind
CancelOutcome(u, bid) == CancelBookingOutcome(bookings, payments, next_payment_id, u, bid)

DeleteOutcome(u, bid) ==
  ServiceCancelBookingOutcome(bookings, payments, next_payment_id, schedules, now, u, bid)

\* the request leaves booking bid and every payment as they are
Untouched(o, bid) == o.bookings = bookings /\ o.payments = payments

\* C10 as claimed: a cancellation request for a CART, PENDING or CONFIRMED
\* booking by its owner or an admin sets it CANCELLED; one for a CANCELLED or
\* EXPIRED booking, or by a non-admin who is not the owner, is rejected and
\* changes neither the booking nor its payment.
C10_AsClaimed ==
  \A bid \in BookingIds, u \in Users :
     LET b == bookings[bid]
         entitled == b.user_id = u \/ IsAdmin(u)
     IN /\ (b.status \in {"CART", "PENDING", "CONFIRMED"} /\ entitled)
             => /\ CancelOutcome(u, bid).bookings[bid].status = "CANCELLED"
                /\ DeleteOutcome(u, bid).bookings[bid].status = "CANCELLED"
        /\ (b.status \in {"CANCELLED", "EXPIRED"} \/ ~entitled)
             => /\ CancelOutcome(u, bid).response.result # "ok"
                /\ DeleteOutcome(u, bid).response.result # "ok"
                /\ Untouched(CancelOutcome(u, bid), bid)
                /\ Untouched(DeleteOutcome(u, bid), bid)

\* C10 amended: as claimed, except that DELETE /booking/{id} refuses a
\* non-admin owner when the departure is less than two hours away (or past) and
\* then changes nothing; POST /cancel/booking/{id} has no such cutoff.  Only the
\* cancelled booking's status and, on POST /cancel, the refund amount of its
\* COMPLETED payment change.
C10_ManualCancel ==
  \A bid \in BookingIds, u \in Users :
     LET b == bookings[bid]
         entitled == b.user_id = u \/ IsAdmin(u)
         cut == ~IsAdmin(u) /\ TimeToDeparture(b, schedules, now) < CancelCutoffMinutes
         co == CancelOutcome(u, bid)
         do == DeleteOutcome(u, bid)
     IN /\ (b.status \in {"CART", "PENDING", "CONFIRMED"} /\ entitled)
             => /\ co.response.result = "ok"
                /\ co.bookings = [bookings EXCEPT ![bid].status = "CANCELLED"]
                /\ \A p \in co.payments : p.booking_id # bid => p \in payments
                /\ { [id |-> p.id, status |-> p.status] : p \in co.payments }
                     = { [id |-> p.id, status |-> p.status] : p \in payments }
                /\ IF cut
                     THEN /\ do.response.result
                               = "Cannot cancel booking within 2 hours of departure"
                          /\ Untouched(do, bid)
                     ELSE /\ do.response.result = "ok"
                          /\ do.bookings = [bookings EXCEPT ![bid].status = "CANCELLED"]
                          /\ do.payments = payments
        /\ (b.status \in {"CANCELLED", "EXPIRED"} \/ ~entitled)
             => /\ co.response.result # "ok"
                /\ do.response.result # "ok"
                /\ Untouched(co, bid)
                /\ Untouched(do, bid)

\* a paid booking was cancelled and its payment marked for refund, while a
\* CONFIRMED booking of an ordinary user departs within the hour: DELETE
\* refuses its owner, POST /cancel and the admin's DELETE cancel it
C10_Witness ==
  /\ \E p \in payments : p.refund_amount # NULL /\ BookingOf(p).status = "CANCELLED"
  /\ \E bid \in BookingIds :
        /\ bookings[bid].status = "CONFIRMED"
        /\ ~IsAdmin(bookings[bid].user_id)
        /\ TimeToDeparture(bookings[bid], schedules, now) < CancelCutoffMinutes
        /\ Untouched(DeleteOutcome(bookings[bid].user_id, bid), bid)
        /\ CancelOutcome(bookings[bid].user_id, bid).bookings[bid].status = "CANCELLED"
        /\ \E a \in Users : IsAdmin(a) /\ DeleteOutcome(a, bid).bookings[bid].status = "CANCELLED"

\* C11: a non-admin never moves a booking to CANCELLED through a cancellation
\* request (POST /cancel/booking/{id} or DELETE /booking/{id}) when fewer than
\* two hours remain before the departure of its schedule on its travel date;
\* an admin's cancellation request does cancel it.
C11_NoLateCancelByUser ==
  \A bid \in BookingIds, u \in Users :
     (/\ bookings[bid].status \in {"CART", "PENDING", "CONFIRMED"}
      /\ TimeToDeparture(bookings[bid], schedules, now) < CancelCutoffMinutes)
       => IF IsAdmin(u)
            THEN /\ CancelOutcome(u, bid).bookings[bid].status = "CANCELLED"
                 /\ DeleteOutcome(u, bid).bookings[bid].status = "CANCELLED"
            ELSE /\ CancelOutcome(u, bid).bookings[bid].status # "CANCELLED"
                 /\ DeleteOutcome(u, bid).bookings[bid].status # "CANCELLED"

\* the two implementations of the expiry sweep, run on the tables bks at time t
Sweeps(bks, t) ==
  { AutoCancelOutcome(bks, payments, next_payment_id, t),
    RouteAutoCancelOutcome(bks, payments, next_payment_id, t) }

\* C12: one run of the expiry sweep sets EXPIRED exactly the CART or PENDING
\* bookings whose expires_at is earlier than the sweep's time and leaves every
\* other booking and every payment unchanged; a second run straight after it
\* changes no booking and reports zero, and no later run touches the expired rows.
C12_SweepExactAndIdempotent ==
  \A o \in Sweeps(bookings, now) :
     /\ DOMAIN o.bookings = DOMAIN bookings
     /\ \A i \in BookingIds :
          IF bookings[i].status \in {"CART", "PENDING"} /\ bookings[i].expires_at < now
            THEN o.bookings[i] = [bookings[i] EXCEPT !.status = "EXPIRED"]
            ELSE o.bookings[i] = bookings[i]
     /\ o.payments = payments
     /\ \A again \in Sweeps(o.bookings, now) :
          /\ again.bookings = o.bookings
          /\ again.response.result = 0
     /\ \A t \in Instants : t >= now =>
          \A later \in Sweeps(o.bookings, t) :
             \A i \in BookingIds :
                o.bookings[i].status = "EXPIRED" => later.bookings[i] = o.bookings[i]

\* an overdue CART booking beside an overdue PENDING one whose payment failed:
\* either sweep expires both
C12_Witness ==
  /\ now > BOOKING_EXPIRY_MINUTES
  /\ \E i, j \in BookingIds :
        /\ bookings[i].status = "CART" /\ bookings[i].expires_at < now
        /\ bookings[j].status = "PENDING" /\ bookings[j].expires_at < now
        /\ PaymentsOf(payments, j) # {}
        /\ \A o \in Sweeps(bookings, now) :
              o.bookings[i].status = "EXPIRED" /\ o.bookings[j].status = "EXPIRED"

\* CART or PENDING with expires_at in the past
Overdue(b) ==
  /\ b \in BookingIds
  /\ bookings[b].status \in {"CART", "PENDING"}
  /\ bookings[b].expires_at < now

\* C13: while the application runs, every booking that is CART or PENDING
\* after its expires_at has passed is eventually set to EXPIRED (or has left
\* CART/PENDING otherwise) with no user or admin request needed.
C13_OverdueEventuallyExpired ==
  \A b \in 1..MaxBookings : Overdue(b) ~> ~Overdue(b)

\* class_prices a vehicle may carry: none, those of a seeded bus, those of a
\* train without an economy class, and an upper-case economy key
ClassPriceConfigs ==
  { <<>>,
    [economy |-> EconomyClassPrice, business |-> BusinessClassPrice],
    [shovon |-> EconomyClassPrice],
    [ECONOMY |-> EconomyClassPrice] }

\* C14: for every vehicle and schedule the per-seat price resolved for class
\* ECONOMY, in any letter case, is the schedule's base_price whatever the
\* vehicle's class_prices hold for economy, and a booking's total_price is that
\* price times its number of seats.
C14_EconomyAtBasePrice ==
  /\ \A cp \in ClassPriceConfigs, c \in {"ECONOMY", "economy", "Economy"}, s \in ScheduleIds :
        GetPriceForClass([vehicle EXCEPT !.class_prices = cp], c, schedules[s])
          = schedules[s].base_price
  /\ \A i \in BookingIds :
        Upper(bookings[i].seat_class) = "ECONOMY"
          => bookings[i].total_price
               = schedules[bookings[i].schedule_id].base_price[1]
                   * Cardinality(bookings[i].seats)

\* amounts (whole taka) and minutes before departure the refund policy is
\* checked on, around every tier boundary and the flat minimum
RefundAmounts == {0, 1, 55, 56, 66, 67, 100, 199, 200, 1000}
RefundMinutes ==
  {-60, 0, 120, 239, 240, 600, 719, 720, 1439, 1440, 2879, 2880, 3000}

\* the percentage the tiered policy names for h hours before departure,
\* h = m / 60
PolicyPercent(m) ==
  CASE m >= 48 * 60 -> 90
    [] m >= 24 * 60 /\ m < 48 * 60 -> 75
    [] m >= 12 * 60 /\ m < 24 * 60 -> 50
    [] m >= 4 * 60 /\ m < 12 * 60 -> 25
    [] m < 4 * 60 -> 0

\* the refund the policy names, in hundredths: the percentage of the amount,
\* or 0 when that is non-zero and below the flat minimum of 50
PolicyRefund(amount, m) ==
  IF amount * PolicyPercent(m) # 0 /\ amount * PolicyPercent(m) < 50 * 100
    THEN 0
    ELSE amount * PolicyPercent(m)

\* the refund computed on the bounded inputs is the one the policy names
RefundPolicyOnInputs ==
  \A a \in RefundAmounts, m \in RefundMinutes, t \in Instants :
     CalculateRefundAmount(a, t + m, t) = PolicyRefund(a, m)

RefundRecorded(bid) ==
  { p.refund_amount[1] :
      p \in { q \in CancelOutcome(bookings[bid].user_id, bid).payments :
                q.booking_id = bid /\ q.refund_amount # NULL } }

\* C16: cancelling a booking with a COMPLETED payment of 1000 yields a refund
\* of 900 fifty hours before departure, 500 ten hours before and 0 two hours
\* before; so a cancellation less than four hours before departure records a
\* refund of 0 on the payment.
C16_RefundExamples ==
  /\ CancelRefundAmount(1000) = 900
  /\ CalculateRefundAmount(1000, now + 50 * MinutesPerHour, now) = 900 * 100
  /\ CalculateRefundAmount(1000, now + 10 * MinutesPerHour, now) = 500 * 100
  /\ CalculateRefundAmount(1000, now + 2 * MinutesPerHour, now) = 0
  /\ \A bid \in BookingIds :
        (/\ bookings[bid].status = "CONFIRMED"
         /\ \E p \in PaymentsOf(payments, bid) : p.status = "COMPLETED"
         /\ TimeToDeparture(bookings[bid], schedules, now) < 4 * MinutesPerHour)
          => RefundRecorded(bid) = {0}

(* ------------------------------ C17 ----------------------------------- *)
\* counts of CONFIRMED/COMPLETED bookings around the two thresholds
PassBookingCounts == {0, 19, 20, 21, 39, 40, 41}
\* order amounts, in whole taka
OrderAmounts == {400, 500, 800, 1000, 1600, 3000}

\* the pass discount on the bounded inputs
PassPolicyOnInputs ==
  \A n \in PassBookingCounts, a \in OrderAmounts :
    /\ \A c \in {"SILVER20", "SILVERPASS"} :
         LET d == PassDiscount(c, n, a)
         IN /\ d.valid <=> n >= 20
            /\ d.valid => d.discount_amount * 100 = a * 5
    /\ \A c \in {"GOLD40", "GOLDPASS"} :
         LET d == PassDiscount(c, n, a)
         IN /\ d.valid <=> n >= 40
            /\ d.valid => d.discount_amount * 100 = a * 8
    /\ \A c \in {"SILVER20", "SILVERPASS", "GOLD40", "GOLDPASS"} :
         PassDiscount(c, n, a).discount_amount * 100 <= a * 8

\* C17: a Silver pass code gives 5% exactly when the user has at least 20
\* CONFIRMED/COMPLETED bookings and a Gold pass code 8% exactly when the user
\* has at least 40; a payment request of a booking's owner carrying a pass
\* code below its threshold fails and adds no Payment row, even when the
\* gateway would accept the charge; no payment's pass discount is
\* more than 8% of the order amount.
C17_PassThresholds ==
  /\ PassPolicyOnInputs
  /\ \A bid \in DOMAIN bookings, code \in PaymentPnrs :
       LET u == bookings[bid].user_id
       IN /\ \A c \in {"SILVER20", "SILVERPASS"} :
               ComputeUserTotalBookings(bookings, u) < 20 =>
                 LET o == PayCouponOutcome(u, bid, "success", code, c)
                 IN o.response.result # "ok" /\ o.payments \subseteq payments
          /\ \A c \in {"GOLD40", "GOLDPASS"} :
               ComputeUserTotalBookings(bookings, u) < 40 =>
                 LET o == PayCouponOutcome(u, bid, "success", code, c)
                 IN o.response.result # "ok" /\ o.payments \subseteq payments
  /\ \A p \in payments :
       p.coupon_code \in {<<"SILVER20">>, <<"SILVERPASS">>, <<"GOLD40">>, <<"GOLDPASS">>}
         => p.discount_amount * 100 <= p.amount * 8

\* a user with one CONFIRMED booking whose other booking could be paid without
\* a coupon is refused when the request carries a Silver pass code
C17_Witness ==
  \E u \in Users, bid \in DOMAIN bookings, other \in DOMAIN bookings, code \in PaymentPnrs :
    /\ bookings[other].user_id = u
    /\ bookings[other].status = "CONFIRMED"
    /\ ComputeUserTotalBookings(bookings, u) = 1
    /\ PayOutcome(u, bid, "success", code).response.result = "ok"
    /\ PayCouponOutcome(u, bid, "success", code, "SILVERPASS").response.result
         = "Pass requires more bookings"

(* ------------------------------ C18 ----------------------------------- *)
\* C18: a payment by a user with no CONFIRMED/COMPLETED booking gets the 5%
\* first-time discount: its Payment row records discount_amount = 5% of the
\* order amount and final_amount = amount - discount_amount.
C18_FirstTimeDiscount ==
  \A u \in Users, bid \in DOMAIN bookings, code \in PaymentPnrs :
    LET o == PayOutcome(u, bid, "success", code)
    IN (ComputeUserTotalBookings(bookings, u) = 0 /\ o.response.result = "ok") =>
         \E p \in o.payments \ payments :
           /\ p.booking_id = bid
           /\ p.discount_amount * 100 = p.amount * 5
           /\ p.final_amount = p.amount - p.discount_amount

(* ------------------------------ C19 ----------------------------------- *)
Min(a, b) == IF a <= b THEN a ELSE b

\* a coupons row of type percentage: active, inside its validity window, no
\* global usage limit, one use per user
PercentageCoupon(p, cap, m) ==
  [code |-> "SAVE", coupon_type |-> "PERCENTAGE",
   discount_percent |-> p, discount_amount |-> 0,
   min_order_value |-> m, max_discount |-> cap,
   usage_limit |-> 0, usage_count |-> 0,
   user_usage_limit |-> 1, is_active |-> TRUE,
   valid_from |-> 0, valid_until |-> 365 * MinutesPerDay]

\* the coupon discount on the bounded inputs, for a user's first use
CouponPolicyOnInputs ==
  \A p \in {10, 25}, cap \in {200, 500}, m \in {500, 1000}, a \in OrderAmounts,
     t \in Instants :
    LET r == ApplyCouponRow(PercentageCoupon(p, cap, m), a, 0, t)
    IN IF a < m
         THEN ~r.valid
         ELSE r.valid /\ r.discount_amount = Min((a * p) \div 100, cap)

\* C19: a percentage coupon (percent p, cap max_discount, minimum m) that is
\* active, inside its window and not yet used by the user is rejected on an
\* order amount a < m and otherwise gives min(a*p/100, max_discount);
\* WELCOME10 gives 100 on 1000 and is rejected on 400; a payment made with
\* WELCOME10 records that discount and final_amount = amount - discount.
C19_PercentageCoupon ==
  /\ CouponPolicyOnInputs
  /\ \A u \in Users :
       (~\E p \in payments : /\ bookings[p.booking_id].user_id = u
                              /\ p.coupon_code = <<"WELCOME10">>
                              /\ p.status = "COMPLETED") =>
         /\ ApplyCoupon(bookings, payments, now, "WELCOME10", 1000, u).valid
         /\ ApplyCoupon(bookings, payments, now, "WELCOME10", 1000, u).discount_amount = 100
         /\ ~ApplyCoupon(bookings, payments, now, "WELCOME10", 400, u).valid
  /\ \A bid \in DOMAIN bookings, code \in PaymentPnrs :
       LET o == PayCouponOutcome(bookings[bid].user_id, bid, "success", code, "WELCOME10")
       IN o.response.result = "ok" =>
            \E p \in o.payments \ payments :
              /\ p.booking_id = bid
              /\ p.coupon_code = <<"WELCOME10">>
              /\ p.discount_amount = Min((p.amount * 10) \div 100, 200)
              /\ p.final_amount = p.amount - p.discount_amount
  /\ \A p \in payments :
       p.coupon_code = <<"WELCOME10">> =>
         /\ p.discount_amount = Min((p.amount * 10) \div 100, 200)
         /\ p.final_amount = p.amount - p.discount_amount

\* a completed payment that was made with WELCOME10
C19_Witness ==
  \E p \in payments :
    /\ p.status = "COMPLETED"
    /\ p.coupon_code = <<"WELCOME10">>
    /\ p.discount_amount > 0
    /\ p.final_amount < p.amount

(* ------------------------------ C20 ----------------------------------- *)
\* Vehicle.seat_map["classes"] of vehicle 1: every seat is ECONOMY
SeatMapClasses == [ECONOMY |-> [i \in 1..TotalSeats |-> i]]

\* Booking.transport_id: the vehicle of the booked schedule
TransportId(b, scheds) == scheds[b.schedule_id].vehicle_id

Range(seq) == { seq[i] : i \in DOMAIN seq }

\* the entries of the flattened booked_seats list that lie in seat_numbers, the
\* list being the seats of the first n rows of bks that pass the filter
RECURSIVE BookedInClass(_, _, _, _)
BookedInClass(bks, selected, seat_numbers, n) ==
  IF n = 0 THEN 0
  ELSE BookedInClass(bks, selected, seat_numbers, n - 1)
         + (IF n \in selected
              THEN Cardinality(bks[n].seats \cap Range(seat_numbers)) ELSE 0)

\* get_available_seats(vehicle_id, travel_date): the active bookings of the
\* vehicle on that date, whatever their schedule
GetAvailableSeats(bks, scheds, vehicle_id, travel_day) ==
  LET selected == { i \in DOMAIN bks :
                      /\ TransportId(bks[i], scheds) = vehicle_id
                      /\ DateOf(bks[i].travel_date) = travel_day
                      /\ bks[i].status \in {"PENDING", "CONFIRMED"} }
      booked_seats == UNION { bks[i].seats : i \in selected }
  IN [class_name \in DOMAIN SeatMapClasses |->
        LET seat_numbers == SeatMapClasses[class_name]
            total_class_seats == Len(seat_numbers)
            booked_class_seats == BookedInClass(bks, selected, seat_numbers, Len(bks))
        IN [total |-> total_class_seats,
            booked |-> booked_class_seats,
            available |-> total_class_seats - booked_class_seats,
            seat_numbers |-> SelectSeq(seat_numbers, LAMBDA x : x \notin booked_seats)]]

\* get_seat_map(vehicle_id, travel_date, schedule_id): schedule_id is <<id>>,
\* or NULL when the request names none
GetSeatMap(bks, scheds, vehicle_id, travel_day, schedule_id) ==
  LET selected == { i \in DOMAIN bks :
                      /\ IF schedule_id # NULL
                            THEN bks[i].schedule_id = schedule_id[1]
                            ELSE TransportId(bks[i], scheds) = vehicle_id
                      /\ DateOf(bks[i].travel_date) = travel_day
                      /\ bks[i].status \in {"PENDING", "CONFIRMED"} }
      booked_seats == UNION { bks[i].seats : i \in selected }
  IN [class_name \in DOMAIN SeatMapClasses |->
        LET seat_numbers == SeatMapClasses[class_name]
            available_nums == SelectSeq(seat_numbers, LAMBDA x : x \notin booked_seats)
        IN [total_seats |-> Len(seat_numbers),
            available_seats |-> Len(available_nums),
            booked_seats |-> Len(seat_numbers) - Len(available_nums),
            seat_numbers |-> seat_numbers,
            available_seat_numbers |-> available_nums,
            booked_seat_numbers |-> SelectSeq(seat_numbers, LAMBDA x : x \in booked_seats)]]

\* vehicle 1 runs two schedules a day, out and back
InitTwoSchedules ==
  /\ bookings = <<>>
  /\ payments = {}
  /\ next_payment_id = 1
  /\ schedules = [s \in 1..(NumSchedules + 1) |->
        [vehicle_id |-> 1, is_active |-> TRUE, base_price |-> <<BasePrice>>,
         departure_time |-> IF s = 1 THEN 60 ELSE 720]]
  /\ now = 0
  /\ gateway_charges = [b \in 1..MaxBookings |-> 0]
  /\ inflight = [r \in Requests |-> Idle]
  /\ overlapped = FALSE

NextSeats ==
  \/ CreateStep
  \/ PayStep
  \/ CancelStep

SpecSeats == InitTwoSchedules /\ [][NextSeats]_vars

\* C20: for every seat class and travel date the seat resolver's available and
\* booked seat numbers are disjoint and together are the class's seat list,
\* total = available count + booked count, and the available count is the
\* number of seat numbers listed as available.
C20_SeatPartition ==
  \A d \in TravelDays, class_name \in DOMAIN SeatMapClasses :
    /\ \A schedule_id \in {NULL} \cup { <<s>> : s \in DOMAIN schedules } :
         LET m == GetSeatMap(bookings, schedules, vehicle.id, d, schedule_id)[class_name]
         IN /\ Range(m.available_seat_numbers) \cap Range(m.booked_seat_numbers) = {}
            /\ Range(m.available_seat_numbers) \cup Range(m.booked_seat_numbers)
                 = Range(SeatMapClasses[class_name])
            /\ m.total_seats = m.available_seats + m.booked_seats
            /\ m.available_seats = Len(m.available_seat_numbers)
            /\ m.booked_seats = Len(m.booked_seat_numbers)
    /\ LET a == GetAvailableSeats(bookings, schedules, vehicle.id, d)[class_name]
       IN /\ a.total = a.available + a.booked
          /\ a.available = Len(a.seat_numbers)

(* ------------------------------ C21 ----------------------------------- *)
\* the schedules table with schedule 1 switched off
SchedulesOneInactive == [schedules EXCEPT ![1].is_active = FALSE]

\* the seats some PENDING or CONFIRMED row of bks holds on schedule s, day d
HeldSeats(bks, s, d) ==
  { n \in SeatNumbers : \E i \in DOMAIN bks :
      /\ bks[i].status \in {"PENDING", "CONFIRMED"}
      /\ bks[i].schedule_id = s
      /\ DateOf(bks[i].travel_date) = d
      /\ n \in bks[i].seats }

\* the reason the claimed order of checks gives: the first check that fails
FirstFailingCheck(scheds, s, seats, seat_class, d) ==
  IF s \notin DOMAIN scheds THEN "Schedule not found"
  ELSE IF ~scheds[s].is_active THEN "Schedule is not active"
  ELSE IF d < DateOf(now) THEN "Cannot book past journeys"
  ELSE IF seats \cap HeldSeats(bookings, s, d) # {} THEN "Seats are already booked"
  ELSE IF seats \cap (1..TotalSeats) # seats THEN "Invalid seat numbers"
  ELSE IF seat_class \notin {"ECONOMY", "BUSINESS"} THEN "Class not available"
  ELSE "ok"

\* C21: create_booking checks, in this order, schedule resolvable, schedule
\* active, travel date not past, no requested seat occupied, seat numbers in
\* 1..total_seats, price resolvable; the first failing check gives the reason
\* and no Booking row is created; when all pass exactly one CART booking with
\* expires_at = now + BOOKING_EXPIRY_MINUTES is added, no other booking
\* changes and the held seats of every schedule and date stay as they were.
C21_CreateChecksInOrder ==
  \A s \in 1..(NumSchedules + 1), seats \in SeatLists,
     seat_class \in {"ECONOMY", "SHOVON"}, d \in TravelDays :
    /\ \A scheds \in {schedules, SchedulesOneInactive} :
         CheckAvailability(bookings, scheds, now, s, seats, seat_class, d).message
           = FirstFailingCheck(scheds, s, seats, seat_class, d)
    /\ \A u \in Users :
         d >= DateOf(now) =>
           LET o == CreateBookingOutcome(bookings, payments, next_payment_id, schedules,
                                         now, u, s, seats, seat_class, d)
               n == Len(bookings) + 1
           IN /\ o.response.result = FirstFailingCheck(schedules, s, seats, seat_class, d)
              /\ o.payments = payments
              /\ IF o.response.result # "ok"
                   THEN o.bookings = bookings
                   ELSE /\ Len(o.bookings) = n
                        /\ \A i \in DOMAIN bookings : o.bookings[i] = bookings[i]
                        /\ o.bookings[n].status = "CART"
                        /\ o.bookings[n].user_id = u
                        /\ o.bookings[n].seats = seats
                        /\ o.bookings[n].expires_at = now + 30000
                        /\ \A s2 \in 1..(NumSchedules + 1), d2 \in TravelDays :
                             HeldSeats(o.bookings, s2, d2) = HeldSeats(bookings, s2, d2)

\* a seat is held, a request for it and for a seat the vehicle does not have
\* is refused for the held seat, and the last row is a CART booking created
\* now
C21_Witness ==
  /\ Len(bookings) = 2
  /\ bookings[1].status = "CONFIRMED"
  /\ bookings[2].status = "CART"
  /\ bookings[2].expires_at = now + 30000
  /\ \E s \in DOMAIN schedules, d \in TravelDays :
       /\ d >= DateOf(now)
       /\ HeldSeats(bookings, s, d) # {}
       /\ CreateBookingOutcome(bookings, payments, next_payment_id, schedules, now, 2, s,
                               SeatNumbers, "ECONOMY", d).response.result
            = "Seats are already booked"

(* ------------------------------ C22 ----------------------------------- *)
\* what the in-app notification step after the commit may raise: nothing, one
\* of the classes its own handler absorbs, or another exception class
NotificationFailures ==
  {"none", "SQLAlchemyError", "ValueError", "RuntimeError", "TypeError", "OSError"}

\* process_booking_payment, lines 397-541: the steps after the commit of a
\* successful payment.  The notifications are created inside the try block of
\* the gateway call: SQLAlchemyError, ValueError and RuntimeError are logged
\* (line 439); a TypeError reaches the handler of line 514, whose UPDATE marks
\* the payment FAILED; any other class leaves the handler as a 500 response.
AfterCommit(o, payment_id, failure) ==
  IF o.response.result # "ok" \/ failure \in {"none", "SQLAlchemyError", "ValueError", "RuntimeError"}
    THEN o
  ELSE IF failure = "TypeError"
    THEN [o EXCEPT !.payments =
                     { IF p.id = payment_id
                         THEN [p EXCEPT !.status = "FAILED", !.gateway_response = <<failure>>]
                         ELSE p : p \in o.payments },
                   !.response = Response("Payment processing error", {}, "success")]
  ELSE [o EXCEPT !.response = Response("Internal Server Error", {}, "success")]

\* the payment request, the notification step failing with failure
ProcessBookingPaymentNotify(bks, pays, npid, scheds, clock, u, bid, gw, code, coupon, failure) ==
  AfterCommit(ProcessBookingPayment(bks, pays, npid, scheds, clock, u, bid, gw, code, coupon),
              npid, failure)

\* POST /payment/ where the notification step may fail
PayNotify(u, bid, gw, code, coupon, failure) ==
  /\ next_payment_id <= MaxPayments
  /\ gateway_charges[bid] < MaxCharges
  /\ LET o == ProcessBookingPaymentNotify(bookings, payments, next_payment_id, schedules,
                                          now, u, bid, gw, code, coupon, failure)
     IN /\ bookings' = o.bookings
        /\ payments' = o.payments
        /\ next_payment_id' = o.next_payment_id
        /\ gateway_charges' = IF o.response.gateway = "success"
                                THEN [gateway_charges EXCEPT ![bid] = @ + 1]
                                ELSE gateway_charges
  /\ UNCHANGED <<schedules, now, inflight, overlapped>>

PayNotifyStep ==
  \E u \in Users, bid \in 1..MaxBookings, gw \in {"success"} \cup GatewayErrors,
     code \in PaymentPnrs, coupon \in RequestCoupons, failure \in NotificationFailures :
       PayNotify(u, bid, gw, code, coupon, failure)

NextNotify ==
  \/ CreateStep
  \/ PayNotifyStep
  \/ CancelStep

SpecNotify == Init /\ [][NextNotify]_vars

\* C22: once a successful payment is committed (Payment COMPLETED, Booking
\* CONFIRMED), no failure of the notification step changes the Payment's or
\* the Booking's status: the request leaves both as a request without the
\* failure does.
C22_NotificationFailureHarmless ==
  \A bid \in DOMAIN bookings, code \in PaymentPnrs, failure \in NotificationFailures :
    LET u == bookings[bid].user_id
        clean == ProcessBookingPaymentNotify(bookings, payments, next_payment_id, schedules,
                                             now, u, bid, "success", code, NULL, "none")
        failed == ProcessBookingPaymentNotify(bookings, payments, next_payment_id, schedules,
                                              now, u, bid, "success", code, NULL, failure)
    IN clean.response.result = "ok" =>
         /\ failed.bookings[bid].status = "CONFIRMED"
         /\ \E p \in failed.payments : p.booking_id = bid /\ p.status = "COMPLETED"
         /\ { [id |-> p.id, status |-> p.status] : p \in failed.payments }
              = { [id |-> p.id, status |-> p.status] : p \in clean.payments }

(* ------------------------------ C23 ----------------------------------- *)
\* C23: a coupon's usage_count is the number of COMPLETED payments that
\* applied it: validating the coupon never changes it, and each payment that
\* applied the coupon and completed increased it by one.
C23_UsageCountedAtCompletion ==
  \A c \in DOMAIN Coupons :
    Coupons[c].usage_count
      = Cardinality({ p \in payments : p.status = "COMPLETED" /\ p.coupon_code = <<c>> })


(* ------------- process_booking_payment, one await at a time ------------ *)
\* Each request runs in its own session on a READ COMMITTED connection
\* (expire_on_commit = False): a query sees what other requests have
\* committed, the Booking object a request loaded is never refreshed, and an
\* UPDATE names the row by id alone.  Between two awaits any other request
\* may run.

\* the request has left the handler: its session is closed
Done(r) == inflight' = [inflight EXCEPT ![r] = Idle]

\* as StartPay, but the seats of a CART booking are not looked up again
StartPayNoRecheck(r, u, bid, coupon) ==
  /\ inflight[r].pc = "idle"
  /\ bid \in BookingIds
  /\ bookings[bid].user_id = u
  /\ bookings[bid].status \in {"CART", "PENDING"}
  /\ LET b == bookings[bid]
         started == [pc |-> "rechecked", user_id |-> u, booking_id |-> bid,
                     coupon |-> coupon, total_price |-> b.total_price, row |-> NULL]
     IN IF b.status = "CART"
          THEN inflight' = [inflight EXCEPT ![r] = started]
          ELSE inflight' = [inflight EXCEPT ![r] = [started EXCEPT !.pc = "pending"]]
  /\ overlapped' = (overlapped \/ \E q \in Requests \ {r} : inflight[q].pc # "idle")
  /\ UNCHANGED <<bookings, payments, next_payment_id, schedules, now, gateway_charges>>

\* lines 108-160: the booking is loaded and checked, a CART booking's seats are
\* looked up again, and status = PENDING waits in the session for the commit.
\* (A request turned away here writes nothing.)
StartPay(r, u, bid, coupon) ==
  /\ inflight[r].pc = "idle"
  /\ bid \in BookingIds
  /\ bookings[bid].user_id = u
  /\ bookings[bid].status \in {"CART", "PENDING"}
  /\ LET b == bookings[bid]
         av == CheckAvailability(bookings, schedules, now, b.schedule_id, b.seats,
                                 b.seat_class, DateOf(b.travel_date))
         started == [pc |-> "rechecked", user_id |-> u, booking_id |-> bid,
                     coupon |-> coupon, total_price |-> b.total_price, row |-> NULL]
     IN IF b.status = "CART"
          THEN /\ av.available
               /\ inflight' = [inflight EXCEPT
                                 ![r] = [started EXCEPT !.total_price = av.total_price]]
          \* nothing to write: the commit of line 164 is empty
          ELSE inflight' = [inflight EXCEPT ![r] = [started EXCEPT !.pc = "pending"]]
  /\ overlapped' = (overlapped \/ \E q \in Requests \ {r} : inflight[q].pc # "idle")
  /\ UNCHANGED <<bookings, payments, next_payment_id, schedules, now, gateway_charges>>

\* lines 161-164: UPDATE bookings SET status = PENDING, total_price WHERE id = bid
CommitPending(r) ==
  /\ inflight[r].pc = "rechecked"
  /\ bookings' = [bookings EXCEPT ![inflight[r].booking_id].status = "PENDING",
                                  ![inflight[r].booking_id].total_price =
                                      inflight[r].total_price]
  /\ inflight' = [inflight EXCEPT ![r].pc = "pending"]
  /\ UNCHANGED <<payments, next_payment_id, schedules, now, gateway_charges, overlapped>>

\* lines 166-288: the existing-payment check, the expiry check on the loaded
\* expires_at, and the discount step, which counts the COMPLETED payments other
\* requests have committed so far; the Payment object is built
Prepare(r) ==
  /\ inflight[r].pc = "pending"
  /\ LET bid == inflight[r].booking_id
         existing == {p \in payments : p.booking_id = bid}
         kept == {p \in payments : p.booking_id # bid \/ p.status # "FAILED"}
         d == ResolveDiscount(bookings, kept, now, bid, inflight[r].coupon)
     IN IF \/ Cardinality(existing) > 1
           \/ \E p \in existing : p.status \in {"COMPLETED", "PENDING"}
          THEN Done(r) /\ UNCHANGED <<bookings, payments>>
        ELSE IF bookings[bid].expires_at < now
          THEN /\ bookings' = [bookings EXCEPT ![bid].status = "EXPIRED"]
               /\ payments' = kept
               /\ Done(r)
        ELSE IF ~d.valid
          THEN Done(r) /\ payments' = kept /\ UNCHANGED bookings
        ELSE /\ payments' = kept
             /\ inflight' = [inflight EXCEPT
                  ![r].pc = "validated",
                  ![r].row = <<[PaymentRow(0, bid, inflight[r].total_price, "PENDING", NULL)
                                  EXCEPT !.discount_amount = d.discount_amount,
                                         !.final_amount =
                                            Max(0, inflight[r].total_price - d.discount_amount),
                                         !.coupon_code = d.coupon_applied]>>]
             /\ UNCHANGED bookings
  /\ UNCHANGED <<next_payment_id, schedules, now, gateway_charges, overlapped>>

\* lines 290-302: db.flush() INSERTs the row, which stays invisible to other
\* sessions until the commit.  payments.booking_id is UNIQUE: the INSERT waits
\* while another session holds an uncommitted row for the booking and fails on
\* a committed one.
Flush(r) ==
  /\ inflight[r].pc = "validated"
  /\ \A q \in Requests \ {r} :
        ~(inflight[q].pc = "charging" /\ inflight[q].booking_id = inflight[r].booking_id)
  /\ IF \E p \in payments : p.booking_id = inflight[r].booking_id
       THEN Done(r) /\ UNCHANGED next_payment_id
       ELSE /\ next_payment_id <= MaxPayments
            /\ inflight' = [inflight EXCEPT
                 ![r].pc = "charging",
                 ![r].row = <<[inflight[r].row[1] EXCEPT !.id = next_payment_id]>>]
            /\ next_payment_id' = next_payment_id + 1
  /\ UNCHANGED <<bookings, payments, schedules, now, gateway_charges, overlapped>>

\* lines 352-512: the gateway answers gw and the result is committed: the
\* payment row as COMPLETED with UPDATE bookings SET status = CONFIRMED, pnr
\* WHERE id = bid, or the payment row as FAILED.  A commit that fails on the
\* UNIQUE pnr rolls the flushed row back.
Finish(r, gw, code) ==
  /\ inflight[r].pc = "charging"
  /\ gateway_charges[inflight[r].booking_id] < MaxCharges
  /\ LET bid == inflight[r].booking_id
         row == inflight[r].row[1]
     IN IF gw = "success"
          THEN /\ gateway_charges' = [gateway_charges EXCEPT ![bid] = @ + 1]
               /\ IF PnrTaken(bookings, bid, code)
                    THEN UNCHANGED <<bookings, payments>>
                    ELSE /\ bookings' = [bookings EXCEPT ![bid].status = "CONFIRMED",
                                                         ![bid].pnr = code]
                         /\ payments' = payments \cup
                               {[row EXCEPT !.status = "COMPLETED",
                                            !.gateway_response = <<"SUCCESS">>]}
          ELSE /\ payments' = payments \cup
                     {[row EXCEPT !.status = "FAILED",
                                  !.gateway_response = <<"Payment failed: ", gw>>]}
               /\ UNCHANGED <<bookings, gateway_charges>>
  /\ Done(r)
  /\ UNCHANGED <<next_payment_id, schedules, now, overlapped>>

\* a new request takes the first free slot
FreeSlot(r) == r = "r1" \/ inflight["r1"].pc # "idle"

StartPayStep ==
  \E r \in Requests, u \in Users, bid \in 1..MaxBookings, coupon \in RequestCoupons :
     FreeSlot(r) /\ StartPay(r, u, bid, coupon)

\* POST /booking/ for economy seats
CreateEconomyStep ==
  \E u \in Users, schedule_id \in ScheduleIds, seats \in SeatLists, travel_day \in TravelDays :
     CreateBooking(u, schedule_id, seats, "ECONOMY", travel_day)

CommitPendingStep == \E r \in Requests : CommitPending(r)

PrepareStep == \E r \in Requests : Prepare(r)

FlushStep == \E r \in Requests : Flush(r)

FinishStep ==
  \E r \in Requests, gw \in {"success", "Card declined"}, code \in PaymentPnrs :
     Finish(r, gw, code)

\* payment requests served side by side
NextConc ==
  \/ CreateEconomyStep
  \/ StartPayStep
  \/ CommitPendingStep
  \/ PrepareStep
  \/ FlushStep
  \/ FinishStep

SpecConc == Init /\ [][NextConc]_vars

\* POST /payment/ with no coupon_code
StartPayPlainStep ==
  \E r \in Requests, u \in Users, bid \in 1..MaxBookings :
     FreeSlot(r) /\ StartPay(r, u, bid, NULL)

\* payment requests served side by side with cancellations and the sweep,
\* while time passes
NextConcCancel ==
  \/ Tick
  \/ CreateEconomyStep
  \/ StartPayPlainStep
  \/ CommitPendingStep
  \/ PrepareStep
  \/ FlushStep
  \/ FinishStep
  \/ CancelStep
  \/ RunAutoCancelStep

SpecConcCancel == Init /\ [][NextConcCancel]_vars


(* -------- C24: payments racing between the re-check and the commit ------- *)
\* two distinct bookings of one schedule and travel date, both PENDING or
\* CONFIRMED, that list a seat in common
SharedSeat(i, j) ==
  /\ i # j
  /\ Active(bookings[i]) /\ Active(bookings[j])
  /\ SameTrip(bookings[i], bookings[j])
  /\ bookings[i].seats \cap bookings[j].seats # {}

\* C24: two bookings that are both PENDING or CONFIRMED come to share a seat
\* of one schedule and travel date only when a payment request has run while
\* another was in flight: served one after the other, the second request's
\* re-check turns it away.  (That the state is reached, with nothing in the way
\* of both commits, is C24_Witness.)
C24_SharedSeatByRacingPayments ==
  (\E i, j \in BookingIds : SharedSeat(i, j)) => overlapped

\* both bookings passed the re-check before either went PENDING; both were then
\* paid and are CONFIRMED on the same seat
C24_Witness ==
  \E i, j \in BookingIds :
     /\ SharedSeat(i, j)
     /\ bookings[i].status = "CONFIRMED" /\ bookings[j].status = "CONFIRMED"
     /\ \A b \in {i, j} : \E p \in payments : p.booking_id = b /\ p.status = "COMPLETED"


(* ------------- C25: the per-user limit of a coupon under a race ---------- *)
\* the COMPLETED payments of user u that carry coupon c
UserCouponUses(u, c) ==
  Cardinality({ p \in payments : /\ p.status = "COMPLETED"
                                 /\ p.coupon_code = <<c>>
                                 /\ bookings[p.booking_id].user_id = u })

\* C25: for a coupon with a per-user limit L, a user has more than L COMPLETED
\* payments carrying the coupon only when one of the payment requests ran while
\* another was in flight; requests served one at a time never exceed L.
C25_UserLimitUnlessRacing ==
  \A u \in Users, c \in DOMAIN Coupons :
     (Coupons[c].user_usage_limit # 0 /\ UserCouponUses(u, c) > Coupons[c].user_usage_limit)
        => overlapped

\* one user, two bookings, both paid with WELCOME10 (limit 1): each request
\* counted the user's COMPLETED payments before the other had committed one
C25_Witness ==
  \E u \in Users, i, j \in BookingIds :
     /\ i # j
     /\ bookings[i].user_id = u /\ bookings[j].user_id = u
     /\ Coupons["WELCOME10"].user_usage_limit = 1
     /\ \A b \in {i, j} :
          \E p \in payments : /\ p.booking_id = b
                              /\ p.status = "COMPLETED"
                              /\ p.coupon_code = <<"WELCOME10">>
                              /\ p.discount_amount > 0


(* ---------- C26: a cancelled or expired booking under slow payments ------- *)
\* C26: a booking that is CANCELLED or EXPIRED is not CONFIRMED by the next
\* step, whatever the interleaving of payment, cancellation and sweep.
C26_TerminalNeverConfirmed ==
  [][\A bid \in BookingIds :
        bookings[bid].status \in {"CANCELLED", "EXPIRED"}
          => bookings'[bid].status # "CONFIRMED"]_vars


(* ---------------- C27: CONFIRMED only through a payment ------------------ *)
\* booking bid has a COMPLETED payment among pays
Paid(pays, bid) == \E p \in pays : p.booking_id = bid /\ p.status = "COMPLETED"

\* C27: no request of a user who is not an admin (booking update, confirm,
\* cancel through either endpoint) moves a booking to CONFIRMED unless a
\* COMPLETED payment for it exists.
C27_ConfirmedOnlyIfPaid ==
  \A u \in Users, bid \in BookingIds :
     ~IsAdmin(u) =>
        \A o \in {UpdateBookingOutcome(bookings, payments, next_payment_id, u, bid, st) :
                     st \in BookingStatus}
              \cup {ConfirmBookingOutcome(bookings, payments, next_payment_id, bid, c) :
                     c \in ServicePnrs}
              \cup {CancelOutcome(u, bid), DeleteOutcome(u, bid)} :
           (bookings[bid].status # "CONFIRMED" /\ o.bookings[bid].status = "CONFIRMED")
              => Paid(o.payments, bid)


(* ------------- C28: a payment turned away before its row ----------------- *)
\* coupon codes a request may carry: a coupons row, a code no row has, and a
\* pass code
RejectableCoupons == {NULL, <<"WELCOME10">>, <<"NOSUCHCODE">>, <<"SILVER20">>}

\* C28: a payment request that is turned away before a Payment row is created
\* and before the gateway is called, for a reason other than expiry, leaves the
\* status of every booking as it was; a CART booking refused for its coupon is
\* still CART.
C28_RejectedPaymentKeepsStatus ==
  \A u \in Users, bid \in 1..MaxBookings, coupon \in RejectableCoupons, code \in PaymentPnrs :
     LET o == ProcessBookingPayment(bookings, payments, next_payment_id, schedules, now,
                                    u, bid, "success", code, coupon)
     IN (/\ o.response.gateway = "none"
         /\ o.payments \subseteq payments
         /\ o.response.result # "Booking has expired")
          => \A b \in BookingIds : o.bookings[b].status = bookings[b].status


(* ------------------ C29: the amounts of a Payment row -------------------- *)
\* 0 <= discount_amount <= amount and final_amount = amount - discount_amount >= 0
AmountsInRange(p) ==
  /\ 0 <= p.discount_amount
  /\ p.discount_amount <= p.amount
  /\ p.final_amount = p.amount - p.discount_amount
  /\ p.final_amount >= 0

\* every code a request may carry: the coupons rows and the pass codes
AllCouponCodes == DOMAIN Coupons \cup SilverCodes \cup GoldCodes

\* the discount step on the bounded inputs: an accepted coupon or pass code
\* takes more than nothing and no more than the order amount, so that
\* max(0, amount - discount) is amount - discount
DiscountInRangeOnInputs ==
  /\ \A c \in DOMAIN Coupons, a \in OrderAmounts, t \in Instants :
       LET d == ApplyCouponRow(Coupons[c], a, 0, t)
       IN d.valid => /\ 0 < d.discount_amount /\ d.discount_amount <= a
                     /\ Max(0, a - d.discount_amount) = a - d.discount_amount
  /\ \A c \in SilverCodes \cup GoldCodes, n \in PassBookingCounts, a \in OrderAmounts :
       LET d == PassDiscount(c, n, a)
       IN d.valid => /\ 0 < d.discount_amount /\ d.discount_amount <= a
                     /\ Max(0, a - d.discount_amount) = a - d.discount_amount

\* C29: every Payment row a payment request creates, with no code, with any
\* coupon of the coupons table (first-time, seasonal, fixed amount) or with a
\* pass code, whether the gateway accepts or declines, has
\* 0 <= discount_amount <= amount and final_amount = amount - discount_amount >= 0;
\* so has every row of the payments table.
C29_PaymentAmounts ==
  /\ DiscountInRangeOnInputs
  /\ \A bid \in DOMAIN bookings, gw \in {"success", "Card declined"},
        coupon \in {NULL} \cup { <<c>> : c \in AllCouponCodes } :
       LET o == ProcessBookingPayment(bookings, payments, next_payment_id, schedules, now,
                                      bookings[bid].user_id, bid, gw, <<"", 1>>, coupon)
       IN \A p \in o.payments \ payments : p.booking_id = bid /\ AmountsInRange(p)
  /\ \A p \in payments : AmountsInRange(p)

\* two discounted payments are on the books, one the gateway accepted and one
\* it declined: 80 off 800 each; on an order of 1000 the fixed-amount coupon
\* takes its 100
C29_Witness ==
  /\ \E p, q \in payments :
       /\ p.status = "COMPLETED" /\ q.status = "FAILED"
       /\ \A r \in {p, q} : /\ r.coupon_code # NULL
                             /\ r.amount = 800
                             /\ r.discount_amount = 80
                             /\ r.final_amount = 720
  /\ ApplyCouponRow(Coupons["FIXED100"], 1000, 0, now).discount_amount = 100


(* --------- C30: the search-side and the booking-side seat lookups --------- *)
\* the seats get_available_seats lists as available on the vehicle of schedule
\* s on day d, over all classes
ReportedAvailable(s, d) ==
  UNION { Range(GetAvailableSeats(bookings, schedules, schedules[s].vehicle_id, d)[c].seat_numbers) :
            c \in DOMAIN SeatMapClasses }

\* the seats of the vehicle check_availability accepts for schedule s on day d
AcceptedSeats(s, d) ==
  { x \in 1..vehicle.total_seats :
      CheckAvailability(bookings, schedules, now, s, {x}, "ECONOMY", d).available }

\* C30: for every schedule and travel date, the seats the search-side resolver
\* (bookings selected by vehicle id) reports as available are the seats the
\* booking-side availability check (bookings selected by schedule id) accepts,
\* also when the vehicle serves two schedules on that date.
C30_SeatLookupsAgree ==
  \A s \in DOMAIN schedules, d \in TravelDays : ReportedAvailable(s, d) = AcceptedSeats(s, d)
====
